---------------------------- MODULE Spec2Model ----------------------------
(***************************************************************************)
(* Model of the worker optimization engine (src/optimus/engine.go):        *)
(* the Knapsack (Put / Clone / Price), the order filter chain, the         *)
(* free-device snapshots, splitPlans and the epoch driver execute().       *)
(*                                                                         *)
(* Numbers that the program keeps in fixed-width machine integers and      *)
(* multiplies (the plan duration, int64 nanoseconds) are kept as eight     *)
(* base-256 limbs, little endian, so that the wrap modulo 2^64 is the      *)
(* program's.  Prices are math/big integers and are plain naturals.        *)
(***************************************************************************)
EXTENDS Integers, Sequences, FiniteSets, TLC

\* ------------------------------------------------------------------------
\* Bounds of the model
\* ------------------------------------------------------------------------

\* Put calls made in one run of the knapsack specification.
MaxPuts == 3

\* ------------------------------------------------------------------------
\* Fixed-width integers: uint64 / int64 as 8 limbs of 8 bits
\* ------------------------------------------------------------------------

LimbBase == 256

WordLimbs == 8

\* 1e9: nanoseconds in a second (the factor of Knapsack.Put).
NanosPerSecond == 1000000000

\* A small natural (below 2^31) as a 64-bit word.
U64(n) ==
    [i \in 1..WordLimbs |->
        IF i = 1 THEN n % LimbBase
        ELSE IF i = 2 THEN (n \div LimbBase) % LimbBase
        ELSE IF i = 3 THEN (n \div (LimbBase * LimbBase)) % LimbBase
        ELSE IF i = 4 THEN (n \div (LimbBase * LimbBase * LimbBase)) % LimbBase
        ELSE 0]

\* 2^e (e < 64) as a 64-bit word.
Pow2Word(e) ==
    [i \in 1..WordLimbs |-> IF i = (e \div 8) + 1 THEN 2 ^ (e % 8) ELSE 0]

WordIsZero(w) == \A i \in 1..WordLimbs : w[i] = 0

\* Sum of the limb products a[i] * b[j] that land in column k (1-based).
RECURSIVE ColumnSum(_, _, _, _)
ColumnSum(a, b, k, i) ==
    IF i > k THEN 0
    ELSE (IF i <= WordLimbs /\ (k - i + 1) <= WordLimbs
          THEN a[i] * b[k - i + 1] ELSE 0) + ColumnSum(a, b, k, i + 1)

\* Schoolbook product of two words, n limbs kept (n = 8: the machine's
\* wrapping product; n = 16: the exact product).
RECURSIVE MulLimbs(_, _, _, _, _)
MulLimbs(a, b, n, k, carry) ==
    IF k > n THEN <<>>
    ELSE LET s == ColumnSum(a, b, k, 1) + carry
         IN  <<s % LimbBase>> \o MulLimbs(a, b, n, k + 1, s \div LimbBase)

\* int64 multiplication as Go performs it: wraps modulo 2^64.
MulWrap64(a, b) == MulLimbs(a, b, WordLimbs, 1, 0)

\* The product did not fit a non-negative int64.
MulOverflows64(a, b) ==
    LET full == MulLimbs(a, b, 2 * WordLimbs, 1, 0)
    IN  \/ \E i \in (WordLimbs + 1)..(2 * WordLimbs) : full[i] # 0
        \/ full[WordLimbs] >= LimbBase \div 2

\* ------------------------------------------------------------------------
\* Resource algebra and device manager
\* ------------------------------------------------------------------------

Dims == {"cpu", "ram"}

NetFlagBits == {"overlay", "outbound", "incoming"}

ZeroVec == [d \in Dims |-> 0]

Vec(c, r) == [d \in Dims |-> IF d = "cpu" THEN c ELSE r]

VecFits(req, cap) == \A d \in Dims : req[d] <= cap[d]

VecSub(a, b) == [d \in Dims |-> a[d] - b[d]]

VecAdd(a, b) == [d \in Dims |-> a[d] + b[d]]

\* NetFlags.ConverseImplication: every capability the order demands is
\* offered by the worker.
ConverseImplication(workerFlags, orderFlags) == orderFlags \subseteq workerFlags

\* newDeviceManager(devices, freeDevices, mapping).
NewDeviceManager(total, free, flags) ==
    [total |-> total, free |-> free, flags |-> flags]

\* DeviceManager.Contains: can the worker as a whole serve the request.
Contains(dm, benchmarks, netflags) ==
    /\ ConverseImplication(dm.flags, netflags)
    /\ VecFits(benchmarks, dm.total)

\* DeviceManager.Consume: subtracts the request from the free capacity, or
\* fails and leaves the manager as it was.
Consume(dm, benchmarks, netflags) ==
    IF ConverseImplication(dm.flags, netflags) /\ VecFits(benchmarks, dm.free)
    THEN [err |-> FALSE,
          dm |-> [dm EXCEPT !.free = VecSub(dm.free, benchmarks)],
          resources |-> [vec |-> benchmarks, flags |-> dm.flags]]
    ELSE [err |-> TRUE, dm |-> dm,
          resources |-> [vec |-> ZeroVec, flags |-> {}]]

\* ------------------------------------------------------------------------
\* Orders and plans
\* ------------------------------------------------------------------------

Nil == 0

MkOrder(id, ty, dur, author, cp, price, bench, flags) ==
    [id |-> id, type |-> ty, duration |-> dur, author |-> author,
     counterparty |-> cp, price |-> price, benchmarks |-> bench,
     netflags |-> flags]

\* A sonm.AskPlan.  ID, Identity, Tag and CreateTime are zero in a plan
\* that Knapsack.Put builds.
MkPlan(id, orderID, price, dur, res, identity, tag, created) ==
    [ID |-> id, OrderID |-> orderID, Price |-> price, Duration |-> dur,
     Resources |-> res, Identity |-> identity, Tag |-> tag,
     CreateTime |-> created]

NoPlan == MkPlan(0, Nil, 0, U64(0), [vec |-> ZeroVec, flags |-> {}], "", 0, 0)

\* sonm.SumPrice
RECURSIVE SumPrice(_)
SumPrice(plans) ==
    IF plans = <<>> THEN 0 ELSE Head(plans).Price + SumPrice(Tail(plans))

\* ------------------------------------------------------------------------
\* Go heap: device managers behind pointers, slices over backing arrays
\* ------------------------------------------------------------------------

EmptyHeap == [mgr |-> <<>>, arr |-> <<>>]

NilSlice == [arr |-> 0, len |-> 0, cap |-> 0]

\* The elements a slice shows.
SliceView(h, s) ==
    IF s.len = 0 THEN <<>> ELSE SubSeq(h.arr[s.arr], 1, s.len)

\* append(s, x): in place while capacity lasts, else a doubled new array.
SliceAppend(h, s, x) ==
    IF s.len < s.cap
    THEN [heap |-> [h EXCEPT !.arr[s.arr][s.len + 1] = x],
          slice |-> [s EXCEPT !.len = s.len + 1]]
    ELSE LET newcap == IF s.cap = 0 THEN 1 ELSE 2 * s.cap
             old == SliceView(h, s)
             fresh == [i \in 1..newcap |->
                          IF i <= s.len THEN old[i]
                          ELSE IF i = s.len + 1 THEN x ELSE NoPlan]
         IN  [heap |-> [h EXCEPT !.arr = Append(h.arr, fresh)],
              slice |-> [arr |-> Len(h.arr) + 1, len |-> s.len + 1,
                         cap |-> newcap]]

\* make([]*AskPlan, len(s)); copy(new, s)
SliceCopy(h, s) ==
    [heap |-> [h EXCEPT !.arr = Append(h.arr, SliceView(h, s))],
     slice |-> [arr |-> Len(h.arr) + 1, len |-> s.len, cap |-> s.len]]

\* DeviceManager.Clone: an independent manager with the same contents.
ManagerClone(h, addr) ==
    [heap |-> [h EXCEPT !.mgr = Append(h.mgr, h.mgr[addr])],
     addr |-> Len(h.mgr) + 1]

\* ------------------------------------------------------------------------
\* Knapsack
\* ------------------------------------------------------------------------

\* NewKnapsack(deviceManager): the manager is placed on the heap.
NewKnapsack(h, dm) ==
    [heap |-> [h EXCEPT !.mgr = Append(h.mgr, dm)],
     knapsack |-> [manager |-> Len(h.mgr) + 1, plans |-> NilSlice]]

\* Knapsack.Plans
Plans(h, kn) == SliceView(h, kn.plans)

\* Knapsack.Price
Price(h, kn) == SumPrice(Plans(h, kn))

\* Free capacity of the knapsack's manager.
Free(h, kn) == h.mgr[kn.manager].free

\* Clone as it would be if the clone kept the source's manager pointer.
CloneSharedManager(h, kn) ==
    LET sc == SliceCopy(h, kn.plans)
    IN  [heap |-> sc.heap,
         knapsack |-> [manager |-> kn.manager, plans |-> sc.slice]]

\* Knapsack.Clone
Clone(h, kn) ==
    LET sc == SliceCopy(h, kn.plans)
        mc == ManagerClone(sc.heap, kn.manager)
    IN  [heap |-> mc.heap,
         knapsack |-> [manager |-> mc.addr, plans |-> sc.slice]]

\* Put as it would be without the early return on a Consume error.
PutIgnoringConsumeError(h, kn, order) ==
    LET r == Consume(h.mgr[kn.manager], order.benchmarks, order.netflags)
        h1 == [h EXCEPT !.mgr[kn.manager] = r.dm]
        resources == [r.resources EXCEPT !.flags = order.netflags]
        plan == MkPlan(0, order.id, order.price,
                       MulWrap64(U64(NanosPerSecond), order.duration),
                       resources, "", 0, 0)
        ap == SliceAppend(h1, kn.plans, plan)
    IN  [heap |-> ap.heap, knapsack |-> [kn EXCEPT !.plans = ap.slice],
         err |-> r.err]

\* Knapsack.Put
Put(h, kn, order) ==
    LET r == Consume(h.mgr[kn.manager], order.benchmarks, order.netflags)
        h1 == [h EXCEPT !.mgr[kn.manager] = r.dm]
    IN  IF r.err
        THEN [heap |-> h1, knapsack |-> kn, err |-> TRUE]
        ELSE LET resources == [r.resources EXCEPT !.flags = order.netflags]
                 plan == MkPlan(0, order.id, order.price,
                                MulWrap64(U64(NanosPerSecond), order.duration),
                                resources, "", 0, 0)
                 ap == SliceAppend(h1, kn.plans, plan)
             IN  [heap |-> ap.heap,
                  knapsack |-> [kn EXCEPT !.plans = ap.slice],
                  err |-> FALSE]


\* What a caller can observe of a knapsack.
KView(h, kn) == [plans |-> Plans(h, kn), price |-> Price(h, kn), free |-> Free(h, kn)]

\* ------------------------------------------------------------------------
\* Order filter
\* ------------------------------------------------------------------------

WorkerAddr == "worker"

MasterAddr == "master"

\* Authors the blacklist rejects once Update has completed.
BlacklistedAuthors == {"mallory"}

\* Blacklist.IsAllowed
IsAllowed(author) == author \notin BlacklistedAuthors

NumFilters == 6

\* The filter list as it would be without the blacklist lookup.
FilterAtNoBlacklist(i, order, dm, devices, policy) ==
    CASE i = 1 -> order.type = "BID"
      [] i = 2 -> IF policy = "SpotOnly"
                  THEN WordIsZero(order.duration)
                  ELSE FALSE
      [] i = 3 -> TRUE
      [] i = 4 -> ConverseImplication(devices.flags, order.netflags)
      [] i = 5 -> order.counterparty \in {"", WorkerAddr, MasterAddr}
      [] i = 6 -> Contains(dm, order.benchmarks, order.netflags)

\* The i-th function of the list workerEngine.filters returns.
FilterAt(i, order, dm, devices, policy) ==
    CASE i = 1 -> order.type = "BID"
      [] i = 2 -> IF policy = "SpotOnly"
                  THEN WordIsZero(order.duration)
                  ELSE FALSE
      [] i = 3 -> IsAllowed(order.author)
      [] i = 4 -> ConverseImplication(devices.flags, order.netflags)
      [] i = 5 -> order.counterparty \in {"", WorkerAddr, MasterAddr}
      [] i = 6 -> Contains(dm, order.benchmarks, order.netflags)

\* The loop as it would be if it called every filter and returned the
\* conjunction of the verdicts.
RECURSIVE FilterFromAllCalled(_, _, _, _, _)
FilterFromAllCalled(i, order, dm, devices, policy) ==
    IF i > NumFilters THEN [pass |-> TRUE, called |-> <<>>]
    ELSE LET rest == FilterFromAllCalled(i + 1, order, dm, devices, policy)
         IN  [pass |-> FilterAt(i, order, dm, devices, policy) /\ rest.pass,
              called |-> <<i>> \o rest.called]

\* The loop of FittingFunc.Filter from filter i on: the verdict and the
\* filters that were called.
RECURSIVE FilterFrom(_, _, _, _, _)
FilterFrom(i, order, dm, devices, policy) ==
    IF i > NumFilters THEN [pass |-> TRUE, called |-> <<>>]
    ELSE IF ~FilterAt(i, order, dm, devices, policy)
         THEN [pass |-> FALSE, called |-> <<i>>]
         ELSE LET rest == FilterFrom(i + 1, order, dm, devices, policy)
              IN  [pass |-> rest.pass, called |-> <<i>> \o rest.called]

\* FittingFunc.Filter
Filter(order, dm, devices, policy) == FilterFrom(1, order, dm, devices, policy)

\* workerEngine.matchingOrders: the matched orders, and per input order the
\* filters that were called for it.
matchingOrders(dm, devices, orders, policy) ==
    [matched |-> SelectSeq(orders, LAMBDA o : Filter(o, dm, devices, policy).pass),
     called |-> [i \in 1..Len(orders) |-> Filter(orders[i], dm, devices, policy).called]]

\* ------------------------------------------------------------------------
\* Optimization methods
\* ------------------------------------------------------------------------

\* len(matchedOrders) below which the default factory picks branch and bound.
BatchThreshold == 128

\* One method of a BatchModel with the settings Create gives it; a setting
\* the method does not have is 0.
Method(model, orders, exhaustionLimit, maxIterations, populationSize, maxGenerations) ==
    [model |-> model, orders |-> orders, exhaustionLimit |-> exhaustionLimit,
     MaxIterations |-> maxIterations, PopulationSize |-> populationSize,
     MaxGenerations |-> maxGenerations]

\* The methods of the BatchModel Create builds, in its order.
BatchMethods(orders) ==
    << Method("LLS", orders, 128, 10000000, 0, 0),
       Method("GMP", <<>>, 0, 0, 256, 128),
       Method("GMD", <<>>, 0, 0, 512, 64) >>

\* Create as it would be if it counted all orders instead of the matched
\* ones.
CreateByAllOrders(orders, matchedOrders) ==
    IF Len(orders) < BatchThreshold
    THEN [model |-> "BBM", orders |-> <<>>, methods |-> <<>>]
    ELSE [model |-> "Batch", orders |-> orders, methods |-> BatchMethods(orders)]

\* defaultOptimizationMethodFactory.Create: the method and what it is given.
Create(orders, matchedOrders) ==
    IF Len(matchedOrders) < BatchThreshold
    THEN [model |-> "BBM", orders |-> <<>>, methods |-> <<>>]
    ELSE [model |-> "Batch", orders |-> orders, methods |-> BatchMethods(orders)]

\* Orders by price per second, highest first (stable): the order at place
\* i goes behind every dearer order and every equally priced earlier one.
SortByPrice(orders) ==
    LET n == Len(orders)
        place == [i \in 1..n |->
                    1 + Cardinality({j \in 1..n :
                            \/ orders[j].price > orders[i].price
                            \/ orders[j].price = orders[i].price /\ j < i})]
    IN  [k \in 1..n |-> orders[CHOOSE i \in 1..n : place[i] = k]]

\* The sum of the prices of sorted[lo..hi], by halves.
RECURSIVE PriceOfRange(_, _, _)
PriceOfRange(sorted, lo, hi) ==
    IF lo > hi THEN 0
    ELSE IF lo = hi THEN sorted[lo].price
    ELSE LET mid == (lo + hi) \div 2
         IN  PriceOfRange(sorted, lo, mid) + PriceOfRange(sorted, mid + 1, hi)

\* Upper bound of what the orders from i on can add.
RemainingPrice(sorted, i) == PriceOfRange(sorted, i, Len(sorted))

BetterLeaf(cur, best) ==
    \/ cur.price > best.price
    \/ cur.price = best.price /\ Len(cur.plans) < Len(best.plans)

\* Depth-first branch and bound over the price-sorted orders. At order i
\* the knapsack kn first tries to include it (on a clone), then skips it; a
\* node that cannot beat the best so far is pruned, and so is everything
\* below it. BranchBoundSkips walks the skip branches of kn from order lo
\* to order hi, by halves, carrying the best so far and whether a node was
\* pruned; BranchBound closes the walk at the leaf.
RECURSIVE BranchBound(_, _, _, _, _)
RECURSIVE BranchBoundSkips(_, _, _, _, _, _)
BranchBoundSkips(h, kn, sorted, lo, hi, walk) ==
    IF lo > hi \/ walk.pruned THEN walk
    ELSE IF lo = hi
    THEN IF Price(h, kn) + RemainingPrice(sorted, lo) <= walk.best.price
         THEN [walk EXCEPT !.pruned = TRUE]
         ELSE LET c == Clone(h, kn)
                  r == Put(c.heap, c.knapsack, sorted[lo])
              IN  [best |-> IF r.err THEN walk.best
                            ELSE BranchBound(r.heap, r.knapsack, sorted, lo + 1,
                                             walk.best),
                   pruned |-> FALSE]
    ELSE LET mid == (lo + hi) \div 2
         IN  BranchBoundSkips(h, kn, sorted, mid + 1, hi,
                              BranchBoundSkips(h, kn, sorted, lo, mid, walk))

BranchBound(h, kn, sorted, i, best) ==
    LET walk == BranchBoundSkips(h, kn, sorted, i, Len(sorted),
                                 [best |-> best, pruned |-> FALSE])
    IN  IF walk.pruned THEN walk.best
        ELSE IF BetterLeaf(KView(h, kn), walk.best) THEN KView(h, kn)
        ELSE walk.best

\* BranchBoundModel.Optimize on a new knapsack over the manager dm: what the
\* knapsack shows afterwards.
Optimize(dm, matchedOrders) ==
    LET nk == NewKnapsack(EmptyHeap, dm)
    IN  BranchBound(nk.heap, nk.knapsack, SortByPrice(matchedOrders), 1,
                    KView(nk.heap, nk.knapsack))

\* The greedy pass over sorted[lo..hi], by halves: each order that fits the
\* knapsack is put; the pass gives up after 128 rejections in a row.
RECURSIVE GreedyPut(_, _, _, _)
GreedyPut(packed, sorted, lo, hi) ==
    IF lo > hi \/ packed.rejects >= 128 THEN packed
    ELSE IF lo = hi
    THEN LET r == Put(packed.heap, packed.knapsack, sorted[lo])
         IN  IF r.err THEN [packed EXCEPT !.rejects = @ + 1]
             ELSE [heap |-> r.heap, knapsack |-> r.knapsack, rejects |-> 0]
    ELSE LET mid == (lo + hi) \div 2
         IN  GreedyPut(GreedyPut(packed, sorted, lo, mid), sorted, mid + 1, hi)

\* BatchModel.Optimize on a new knapsack over the manager dm. Its methods
\* are heuristics; a greedy pass in price order stands for them.
BatchOptimize(dm, matchedOrders) ==
    LET nk == NewKnapsack(EmptyHeap, dm)
        sorted == SortByPrice(matchedOrders)
        packed == GreedyPut([heap |-> nk.heap, knapsack |-> nk.knapsack, rejects |-> 0],
                            sorted, 1, Len(sorted))
    IN  KView(packed.heap, packed.knapsack)

\* workerEngine.optimize without its error paths: the matched orders, the
\* orders handed to optimizationMethod (the factory's Create), the method it
\* returns, and what the knapsack shows after Optimize(knapsack, matched).
optimize(devices, freeDevices, orders, policy) ==
    LET dm == NewDeviceManager(devices.vec, freeDevices.vec, devices.flags)
        m == matchingOrders(dm, devices, orders, policy)
        nk == NewKnapsack(EmptyHeap, dm)
    IN  IF Len(m.matched) = 0
        THEN [knapsack |-> KView(nk.heap, nk.knapsack), matched |-> <<>>,
              called |-> m.called, factoryOrders |-> <<>>,
              method |-> [model |-> "", orders |-> <<>>, methods |-> <<>>]]
        ELSE LET method == Create(orders, m.matched)
             IN  [knapsack |-> IF method.model = "BBM"
                               THEN Optimize(dm, m.matched)
                               ELSE BatchOptimize(dm, m.matched),
                  matched |-> m.matched,
                  called |-> m.called, factoryOrders |-> orders,
                  method |-> method]

\* ------------------------------------------------------------------------
\* optimizationInput: victims, price, free devices
\* ------------------------------------------------------------------------

\* All orders in which a Go map with key set S may be iterated.
IterationOrders(S) ==
    {f \in [1..Cardinality(S) -> S] : \A i, j \in 1..Cardinality(S) : f[i] = f[j] => i = j}

\* optimizationInput.VictimPlans: the ids of the spot plans.
VictimPlans(plans) == {id \in DOMAIN plans : WordIsZero(plans[id].Duration)}

RECURSIVE SumPlanPrices(_, _)
SumPlanPrices(plans, ids) ==
    IF ids = {} THEN 0
    ELSE LET id == CHOOSE x \in ids : TRUE
         IN  plans[id].Price + SumPlanPrices(plans, ids \ {id})

\* optimizationInput.Price
InputPrice(plans) == SumPlanPrices(plans, DOMAIN plans)

\* AskPlanResources.Sub: fails when a dimension would go negative.
ResourcesSub(free, res) ==
    IF VecFits(res, free) THEN [err |-> FALSE, vec |-> VecSub(free, res)]
    ELSE [err |-> TRUE, vec |-> free]

\* The loop of freeDevices over the plans in iteration order ord, from
\* position i, skipping the removal victims.
RECURSIVE SubtractPlans(_, _, _, _, _)
SubtractPlans(plans, ord, i, removalVictims, free) ==
    IF i > Len(ord) THEN [err |-> FALSE, vec |-> free]
    ELSE IF ord[i] \in removalVictims
         THEN SubtractPlans(plans, ord, i + 1, removalVictims, free)
         ELSE LET r == ResourcesSub(free, plans[ord[i]].Resources.vec)
              IN  IF r.err THEN r
                  ELSE SubtractPlans(plans, ord, i + 1, removalVictims, r.vec)

\* Hardware.LimitTo: the worker hardware cut down to the given resources.
LimitTo(devices, free) ==
    [vec |-> [d \in Dims |-> IF free[d] < devices.vec[d] THEN free[d] ELSE devices.vec[d]],
     flags |-> devices.flags]

\* freeDevices as it would be if it subtracted the removal victims too.
freeDevicesAllPlans(devices, plans, ord, removalVictims) ==
    LET r == SubtractPlans(plans, ord, 1, {}, devices.vec)
    IN  IF r.err THEN [err |-> TRUE, devices |-> devices]
        ELSE [err |-> FALSE, devices |-> LimitTo(devices, r.vec)]

\* optimizationInput.freeDevices with the plans iterated in order ord.
freeDevices(devices, plans, ord, removalVictims) ==
    LET r == SubtractPlans(plans, ord, 1, removalVictims, devices.vec)
    IN  IF r.err THEN [err |-> TRUE, devices |-> devices]
        ELSE [err |-> FALSE, devices |-> LimitTo(devices, r.vec)]

\* optimizationInput.FreeDevices
FreeDevices(devices, plans, ord) == freeDevices(devices, plans, ord, {})

\* VirtualFreeDevices as it would be if it released no plan.
VirtualFreeDevicesKeepingVictims(devices, plans, ord) ==
    freeDevices(devices, plans, ord, {})

\* optimizationInput.VirtualFreeDevices
VirtualFreeDevices(devices, plans, ord) ==
    freeDevices(devices, plans, ord, VictimPlans(plans))

\* ------------------------------------------------------------------------
\* splitPlans
\* ------------------------------------------------------------------------

RECURSIVE SelectPlans(_, _, _)
SelectPlans(seq, ids, keep) ==
    IF seq = <<>> THEN <<>>
    ELSE (IF (Head(seq).OrderID \in ids) = keep THEN <<Head(seq)>> ELSE <<>>)
             \o SelectPlans(Tail(seq), ids, keep)

\* splitPlans as it would be if remove were looked up in orders, the order
\* ids of the existing plans, instead of newOrders.
splitPlansRemoveByOrders(plans, ord, candidates) ==
    LET orders == {plans[id].OrderID : id \in DOMAIN plans}
        existing == [i \in 1..Len(ord) |-> plans[ord[i]]]
    IN  [create |-> SelectPlans(candidates, orders, FALSE),
         remove |-> SelectPlans(existing, orders, FALSE),
         ignore |-> SelectPlans(candidates, orders, TRUE)]

\* workerEngine.splitPlans, with the existing plans iterated in order ord.
splitPlans(plans, ord, candidates) ==
    LET orders == {plans[id].OrderID : id \in DOMAIN plans}
        newOrders == {candidates[i].OrderID : i \in 1..Len(candidates)}
        existing == [i \in 1..Len(ord) |-> plans[ord[i]]]
    IN  [create |-> SelectPlans(candidates, orders, FALSE),
         remove |-> SelectPlans(existing, newOrders, FALSE),
         ignore |-> SelectPlans(candidates, orders, TRUE)]

\* ------------------------------------------------------------------------
\* State
\* ------------------------------------------------------------------------

VARIABLES
    heap,       \* managers and backing arrays reachable from the knapsacks
    ks,         \* the knapsack structs: ks.k, and ks.c once k was cloned
    cloned,     \* ks.c holds a clone
    puts,       \* Put calls made so far
    last,       \* the last knapsack call: its arguments, outcome, state before
    pc,         \* where execute stands
    cfg,        \* workerConfig
    now,        \* wall clock
    worker,     \* the worker service: its plans, devices, next maintenance
    market,     \* the market cache's active orders
    frame,      \* the locals of the running execute call
    calls,      \* RemoveAskPlans / CreateAskPlan requests sent to the worker
    err,        \* what execute returned ("" is nil)
    depth,      \* how many times execute has called itself
    tagger,     \* tags handed out by the process-wide Tagger
    yaml,       \* the optimizationMethodFactory being configured, and the
                \* last UnmarshalYAML call on it
    epoch       \* the Execute call that is running: which one it is, the
                \* plans the worker held when it began, what the calls
                \* before it returned, read and packed

kvars == <<heap, ks, cloned, puts, last>>

evars == <<pc, cfg, now, worker, market, frame, calls, err, depth, tagger>>

vars == <<kvars, evars, yaml, epoch>>

\* ------------------------------------------------------------------------
\* Values of the parts of the state a specification does not use
\* ------------------------------------------------------------------------

\* The zero optimizationMethodFactory, before any UnmarshalYAML call.
NoDocument ==
    [factory |-> "", before |-> "", calls |-> 0, err |-> "",
     doc |-> [tag |-> "", typed |-> FALSE, decodable |-> FALSE]]

\* The first Execute call of an engine whose worker holds plans.
NewEpoch(plans) == [n |-> 1, plans |-> plans, returned |-> <<>>, packed |-> <<>>]

NoOrder == MkOrder(Nil, "BID", U64(0), "", "", 0, ZeroVec, {})

NoDevices == [vec |-> ZeroVec, flags |-> {}]

NilKnapsack ==
    [nil |-> TRUE, plans |-> <<>>, price |-> 0, free |-> ZeroVec,
     orders |-> <<>>, matched |-> <<>>, called |-> <<>>,
     factoryOrders |-> <<>>,
     method |-> [model |-> "", orders |-> <<>>, methods |-> <<>>]]

\* The locals of execute when it is entered.
NewFrame ==
    [input |-> [Orders |-> <<>>, Devices |-> NoDevices, Plans |-> <<>>],
     gather |-> [done |-> {}, errs |-> <<>>, err |-> "", ctx |-> ""],
     victimPlans |-> {},
     naturalFreeDevices |-> NoDevices,
     virtualFreeDevices |-> NoDevices,
     fetch |-> [pending |-> {}, waiting |-> {}, locked |-> {}, seen |-> <<>>,
                orders |-> <<>>, err |-> ""],
     extOrders |-> <<>>,
     tracks |-> [pending |-> {}, err |-> ""],
     naturalKnapsack |-> NilKnapsack,
     virtualKnapsack |-> NilKnapsack,
     mode |-> "",
     split |-> [create |-> <<>>, remove |-> <<>>, ignore |-> <<>>],
     winners |-> <<>>,
     emitted |-> 0]

DefaultConfig ==
    [DryRun |-> FALSE, PriceThreshold |-> 0, StaleThreshold |-> 0,
     OrderPolicy |-> "SpotOnly", Identity |-> "anonymous"]

EpochIdle ==
    /\ pc = "idle"
    /\ cfg = DefaultConfig
    /\ now = 0
    /\ worker = [plans |-> <<>>, devices |-> NoDevices, maintenance |-> 0]
    /\ market = <<>>
    /\ frame = NewFrame
    /\ calls = <<>>
    /\ err = ""
    /\ depth = 0
    /\ tagger = 0
    /\ yaml = NoDocument
    /\ epoch = NewEpoch(worker.plans)

KnapsackIdle ==
    /\ heap = EmptyHeap
    /\ ks = [k |-> [manager |-> 0, plans |-> NilSlice],
             c |-> [manager |-> 0, plans |-> NilSlice]]
    /\ cloned = FALSE
    /\ puts = 0
    /\ last = [op |-> "none", target |-> "k", order |-> NoOrder, err |-> FALSE,
               heap |-> EmptyHeap,
               ks |-> [k |-> [manager |-> 0, plans |-> NilSlice],
                       c |-> [manager |-> 0, plans |-> NilSlice]]]

\* ------------------------------------------------------------------------
\* Knapsack specification: Put and Clone called in any order
\* ------------------------------------------------------------------------

KFlags == {"overlay", "incoming"}

KManagers ==
    { NewDeviceManager(Vec(3, 3), Vec(3, 3), KFlags),
      NewDeviceManager(Vec(3, 3), Vec(2, 1), KFlags),
      NewDeviceManager(Vec(3, 3), ZeroVec, KFlags) }

KOrders ==
    { MkOrder(1, "BID", U64(0), "alice", "", 7, Vec(1, 1), {}),
      MkOrder(2, "BID", U64(3600), "bob", "", 25, Vec(2, 1), {"overlay"}),
      MkOrder(3, "BID", Pow2Word(55), "alice", "", 10, Vec(1, 0), {"incoming"}),
      MkOrder(4, "BID", U64(0), "carol", "", 30, Vec(1, 1), {"outbound"}),
      MkOrder(5, "BID", Pow2Word(34), "bob", "", 5, Vec(0, 1), {}) }

KInit ==
    \E dm \in KManagers :
        LET nk == NewKnapsack(EmptyHeap, dm)
        IN  /\ heap = nk.heap
            /\ ks = [k |-> nk.knapsack, c |-> nk.knapsack]
            /\ cloned = FALSE
            /\ puts = 0
            /\ last = [op |-> "new", target |-> "k", order |-> NoOrder,
                       err |-> FALSE, heap |-> nk.heap,
                       ks |-> [k |-> nk.knapsack, c |-> nk.knapsack]]
            /\ EpochIdle

KTargets == IF cloned THEN {"k", "c"} ELSE {"k"}

\* ks[t].Put(o)
KPut(t, o) ==
    /\ puts < MaxPuts
    /\ t \in KTargets
    /\ LET r == Put(heap, ks[t], o)
       IN  /\ heap' = r.heap
           /\ ks' = [ks EXCEPT ![t] = r.knapsack]
           /\ last' = [op |-> "put", target |-> t, order |-> o,
                       err |-> r.err, heap |-> heap, ks |-> ks]
    /\ puts' = puts + 1
    /\ UNCHANGED <<cloned, evars, yaml, epoch>>

\* c = k.Clone()
KClone ==
    /\ ~cloned
    /\ LET r == Clone(heap, ks.k)
       IN  /\ heap' = r.heap
           /\ ks' = [ks EXCEPT !.c = r.knapsack]
           /\ last' = [op |-> "clone", target |-> "c", order |-> NoOrder,
                       err |-> FALSE, heap |-> heap, ks |-> ks]
    /\ cloned' = TRUE
    /\ UNCHANGED <<puts, evars, yaml, epoch>>

KNext ==
    \/ \E t \in {"k", "c"}, o \in KOrders : KPut(t, o)
    \/ KClone

KnapsackSpec == KInit /\ [][KNext]_vars

KOther(t) == IF t = "k" THEN "c" ELSE "k"


\* ------------------------------------------------------------------------
\* Knapsack properties
\* ------------------------------------------------------------------------

\* The knapsack the last call was made on, before and after it.
KBefore == KView(last.heap, last.ks[last.target])

KAfter == KView(heap, ks[last.target])

\* The request does not fit the free capacity or asks a flag the worker
\* does not offer.
KRejected ==
    \/ ~VecFits(last.order.benchmarks, KBefore.free)
    \/ ~(last.order.netflags \subseteq last.heap.mgr[last.ks[last.target].manager].flags)

\* C6: a Put that the device manager's Consume rejects returns the error
\* and leaves the knapsack's plan list, Price() and free capacity exactly
\* as they were before the call.
C6_PutRejectedPreservesState ==
    last.op = "put" =>
        /\ last.err <=> KRejected
        /\ last.err => KAfter = KBefore

\* A Put was rejected on a knapsack that already holds a plan.
C6_Witness ==
    /\ last.op = "put"
    /\ last.err
    /\ Len(KAfter.plans) >= 1

\* seconds * 1e9 as an exact (16 limb) number.
ExactNanos(secs) == MulLimbs(U64(NanosPerSecond), secs, 2 * WordLimbs, 1, 0)

\* The int64 nanoseconds ns are exactly secs seconds.
DurationIsSeconds(ns, secs) ==
    /\ ns[WordLimbs] < LimbBase \div 2
    /\ ExactNanos(secs) = ns \o [i \in 1..WordLimbs |-> 0]

\* C7: a successful Put appends exactly one plan at the end and leaves the
\* earlier plans unchanged; the new plan has the order's id and price, a
\* duration equal to the order's seconds (zero exactly when the order's
\* duration is zero), the consumed resources with the order's net flags, and
\* the free capacity decreases by exactly the consumed vector.
C7_PutAppendsOrderPlan ==
    (last.op = "put" /\ ~last.err) =>
        LET n == Len(KBefore.plans)
            p == KAfter.plans[n + 1]
        IN  /\ Len(KAfter.plans) = n + 1
            /\ SubSeq(KAfter.plans, 1, n) = KBefore.plans
            /\ p.OrderID = last.order.id
            /\ p.Price = last.order.price
            /\ DurationIsSeconds(p.Duration, last.order.duration)
            /\ WordIsZero(p.Duration) <=> WordIsZero(last.order.duration)
            /\ p.Resources = [vec |-> last.order.benchmarks,
                              flags |-> last.order.netflags]
            /\ KAfter.free = VecSub(KBefore.free, p.Resources.vec)
            /\ KAfter.price = KBefore.price + last.order.price

\* C8: right after c = k.Clone() the clone shows the plans, price and free
\* capacity of k and k is unchanged; a Put on either of the two, accepted or
\* rejected, leaves the other's plan list, Price() and free capacity as
\* they were.
C8_CloneIsFaithful ==
    /\ last.op = "clone" =>
          /\ KView(heap, ks.c) = KView(heap, ks.k)
          /\ KView(heap, ks.k) = KView(last.heap, last.ks.k)
    /\ (last.op = "put" /\ cloned) =>
          KView(heap, ks[KOther(last.target)])
              = KView(last.heap, last.ks[KOther(last.target)])

\* An accepted Put on one knapsack while the other one holds a plan.
C8_Witness ==
    /\ last.op = "put"
    /\ ~last.err
    /\ cloned
    /\ Len(Plans(heap, ks[KOther(last.target)])) >= 1
    /\ Plans(heap, ks.k) # Plans(heap, ks.c)


\* ------------------------------------------------------------------------
\* Epoch: what the worker, the market and the chain hold
\* ------------------------------------------------------------------------

\* Plans the worker may report at the start of an epoch.
MaxPlans == 2

\* Active orders the market cache may report.
MaxOrders == 2

\* Recursive execute calls followed in one Execute.
MaxRestarts == 2

\* The clock stops here (it starts at 4).
MaxNow == 5

HourNanos == MulWrap64(U64(NanosPerSecond), U64(3600))

Res(c, r) == [vec |-> Vec(c, r), flags |-> {}]

\* Plans by id: a spot plan, a one-hour plan, a spot plan created earlier,
\* a one-hour plan that takes the whole worker.
PlanPool ==
    [id \in 1..4 |->
        CASE id = 1 -> MkPlan(1, 101, 10, U64(0), Res(1, 1), "anonymous", 1, 3)
          [] id = 2 -> MkPlan(2, 102, 10, HourNanos, Res(1, 1), "anonymous", 2, 3)
          [] id = 3 -> MkPlan(3, 103, 4, U64(0), Res(1, 0), "anonymous", 3, 2)
          [] id = 4 -> MkPlan(4, 104, 6, HourNanos, Res(2, 2), "anonymous", 4, 4)]

WorkerDevices == [vec |-> Vec(2, 2), flags |-> {"overlay", "outbound"}]

\* Orders the market may list: two that fit, one of a blacklisted author,
\* one that needs a flag the worker lacks, one addressed to the worker.
MarketPool ==
    { MkOrder(1, "BID", U64(0), "alice", "", 7, Vec(1, 1), {}),
      MkOrder(2, "BID", U64(0), "bob", "", 25, Vec(2, 2), {"overlay"}),
      MkOrder(3, "BID", U64(0), "mallory", "", 40, Vec(1, 1), {}),
      MkOrder(4, "BID", U64(0), "carol", "", 30, Vec(1, 0), {"incoming"}),
      MkOrder(5, "BID", U64(0), "alice", WorkerAddr, 15, Vec(1, 0), {}) }

\* blockchain.GetOrderInfo: the order a plan was placed with.
ChainOrder(orderID) ==
    CASE orderID = 101 -> MkOrder(101, "BID", U64(0), "alice", "", 10, Vec(1, 1), {})
      [] orderID = 102 -> MkOrder(102, "BID", U64(3600), "bob", "", 10, Vec(1, 1), {})
      [] orderID = 103 -> MkOrder(103, "ASK", U64(0), WorkerAddr, "", 4, Vec(1, 0), {})
      [] OTHER -> MkOrder(orderID, "ASK", U64(3600), WorkerAddr, "", 6, Vec(2, 2), {})

\* Sequences without repetition of at most n elements of S.
SeqsUpTo(S, n) ==
    UNION { {f \in [1..k -> S] : \A i, j \in 1..k : f[i] = f[j] => i = j} : k \in 0..n }

Configs ==
    [DryRun : BOOLEAN, PriceThreshold : {0, 5}, StaleThreshold : {2},
     OrderPolicy : {"SpotOnly"}, Identity : {"identified"}]

Init ==
    /\ KnapsackIdle
    /\ pc = "maintenance"
    /\ cfg \in Configs
    /\ now = 4
    /\ \E ids \in SUBSET (DOMAIN PlanPool), m \in {4, 5, 9} :
          /\ Cardinality(ids) <= MaxPlans
          /\ worker = [plans |-> [id \in ids |-> PlanPool[id]],
                       devices |-> WorkerDevices, maintenance |-> m]
    /\ market \in SeqsUpTo(MarketPool, IF worker.maintenance = 5 THEN 1 ELSE MaxOrders)
    /\ frame = NewFrame
    /\ calls = <<>>
    /\ err = ""
    /\ depth = 0
    /\ tagger = 0
    /\ yaml = NoDocument
    /\ epoch = NewEpoch(worker.plans)

\* ------------------------------------------------------------------------
\* Epoch: execute, step by step
\* ------------------------------------------------------------------------

\* return e
Return(e) ==
    /\ pc' = "done"
    /\ err' = e

RemoveCall(step, ids, ok) ==
    [rpc |-> "RemoveAskPlans", step |-> step, ids |-> ids, plan |-> NoPlan, ok |-> ok]

CreateCall(plan, ok) ==
    [rpc |-> "CreateAskPlan", step |-> "emit", ids |-> <<>>, plan |-> plan, ok |-> ok]

Range(f) == {f[i] : i \in DOMAIN f}

\* The worker's plans as they would be if it kept reporting the plans a
\* successful removal named.
WithoutPlansKept(plans, ids) == plans

\* The worker's plans after it removed the plans ids.
WithoutPlans(plans, ids) == [id \in (DOMAIN plans) \ ids |-> plans[id]]

\* The gate as it would be if it let a pass through at the very instant
\* the maintenance starts.
MaintenanceStrict ==
    /\ pc = "maintenance"
    /\ \E ok \in BOOLEAN :
          IF ~ok THEN Return("failed to get maintenance")
          ELSE IF now - worker.maintenance > 0
               THEN Return("worker is on the maintenance")
               ELSE pc' = "blacklist" /\ UNCHANGED err
    /\ UNCHANGED <<epoch, yaml, kvars, cfg, now, worker, market, frame, calls, depth, tagger>>

\* worker.NextMaintenance and the maintenance gate.
Maintenance ==
    /\ pc = "maintenance"
    /\ \E ok \in BOOLEAN :
          IF ~ok THEN Return("failed to get maintenance")
          ELSE IF now - worker.maintenance >= 0
               THEN Return("worker is on the maintenance")
               ELSE pc' = "blacklist" /\ UNCHANGED err
    /\ UNCHANGED <<epoch, yaml, kvars, cfg, now, worker, market, frame, calls, depth, tagger>>

\* blacklist.Update
BlacklistUpdate ==
    /\ pc = "blacklist"
    /\ \E ok \in BOOLEAN :
          IF ~ok THEN Return("failed to update blacklist")
          ELSE pc' = "gather" /\ UNCHANGED err
    /\ UNCHANGED <<epoch, yaml, kvars, cfg, now, worker, market, frame, calls, depth, tagger>>

\* The end of a goroutine as it would be if the group kept the last error.
GatherEndsLastError(what, e, input1) ==
    frame' = [frame EXCEPT
                 !.input = IF e = "" THEN input1 ELSE @,
                 !.gather = [done |-> @.done \cup {what},
                             errs |-> [w \in @.done \cup {what} |->
                                          IF w = what THEN e ELSE @.errs[w]],
                             err |-> IF e # "" THEN e ELSE @.err,
                             ctx |-> IF e # "" /\ @.ctx = ""
                                     THEN "context canceled" ELSE @.ctx]]

\* One goroutine of optimizationInput ends: it failed with e, or e is ""
\* and it stored its reply into the input. The group keeps the first error
\* and cancels the context the three calls share.
GatherEnds(what, e, input1) ==
    frame' = [frame EXCEPT
                 !.input = IF e = "" THEN input1 ELSE @,
                 !.gather = [done |-> @.done \cup {what},
                             errs |-> [w \in @.done \cup {what} |->
                                          IF w = what THEN e ELSE @.errs[w]],
                             err |-> IF @.err = "" THEN e ELSE @.err,
                             ctx |-> IF e # "" /\ @.ctx = ""
                                     THEN "context canceled" ELSE @.ctx]]

\* context.WithTimeout: the prelude deadline passes while calls are out.
PreludeTimeout ==
    /\ pc = "gather"
    /\ frame.gather.ctx = ""
    /\ frame.gather.done # {"orders", "devices", "plans"}
    /\ frame' = [frame EXCEPT !.gather.ctx = "context deadline exceeded"]
    /\ UNCHANGED <<epoch, yaml, kvars, pc, cfg, now, worker, market, calls, err, depth, tagger>>

\* The first goroutine as it would be without the check of an empty list.
GatherOrdersAllowEmpty ==
    /\ pc = "gather"
    /\ "orders" \notin frame.gather.done
    /\ \E ok \in BOOLEAN :
          GatherEnds("orders",
                     IF ~ok THEN "failed to pull market orders" ELSE "",
                     [frame.input EXCEPT !.Orders = market])
    /\ UNCHANGED <<epoch, yaml, kvars, pc, cfg, now, worker, market, calls, err, depth, tagger>>

\* optimizationInput, first goroutine: marketCache.ActiveOrders
GatherOrders ==
    /\ pc = "gather"
    /\ "orders" \notin frame.gather.done
    /\ \E ok \in BOOLEAN :
          GatherEnds("orders",
                     IF ~ok THEN "failed to pull market orders"
                     ELSE IF Len(market) = 0
                          THEN "not enough orders to perform optimization"
                          ELSE "",
                     [frame.input EXCEPT !.Orders = market])
    /\ UNCHANGED <<epoch, yaml, kvars, pc, cfg, now, worker, market, calls, err, depth, tagger>>

\* optimizationInput, second goroutine: worker.Devices
GatherDevices ==
    /\ pc = "gather"
    /\ "devices" \notin frame.gather.done
    /\ \E ok \in BOOLEAN :
          GatherEnds("devices",
                     IF ~ok THEN "failed to pull worker devices" ELSE "",
                     [frame.input EXCEPT !.Devices = worker.devices])
    /\ UNCHANGED <<epoch, yaml, kvars, pc, cfg, now, worker, market, calls, err, depth, tagger>>

\* optimizationInput, third goroutine: worker.AskPlans
GatherPlans ==
    /\ pc = "gather"
    /\ "plans" \notin frame.gather.done
    /\ \E ok \in BOOLEAN :
          GatherEnds("plans",
                     IF ~ok THEN "failed to pull worker plans" ELSE "",
                     [frame.input EXCEPT !.Plans = worker.plans])
    /\ UNCHANGED <<epoch, yaml, kvars, pc, cfg, now, worker, market, calls, err, depth, tagger>>

\* optimizationInput: wg.Wait and the return, which ends the life of the
\* context (defer cancel) and hands out the input only without an error.
GatherWait ==
    /\ pc = "gather"
    /\ frame.gather.done = {"orders", "devices", "plans"}
    /\ IF frame.gather.err # ""
       THEN Return(frame.gather.err)
       ELSE pc' = "stale" /\ UNCHANGED err
    /\ frame' = [frame EXCEPT !.gather.ctx = ""]
    /\ UNCHANGED <<epoch, yaml, kvars, cfg, now, worker, market, calls, depth, tagger>>

\* AskPlan.UnsoldDuration
UnsoldDuration(plan) == now - plan.CreateTime

\* The collection as it would be with a strict comparison.
UnsoldPlansStrict(plans) ==
    {id \in DOMAIN plans : UnsoldDuration(plans[id]) > cfg.StaleThreshold}

\* The ids tryRemoveUnsoldPlans collects.
UnsoldPlans(plans) ==
    {id \in DOMAIN plans : UnsoldDuration(plans[id]) >= cfg.StaleThreshold}

\* The stale step as it would be if it went on with the pass after a
\* removal instead of calling execute again.
TryRemoveUnsoldPlansNoRestart ==
    /\ pc = "stale"
    /\ LET victims == UnsoldPlans(frame.input.Plans)
       IN  IF victims = {}
           THEN /\ pc' = "snapshot"
                /\ UNCHANGED <<worker, frame, calls, err, depth, now>>
           ELSE \E ids \in IterationOrders(victims), ok \in BOOLEAN :
                   /\ calls' = Append(calls, RemoveCall("stale", ids, ok))
                   /\ IF ~ok
                      THEN /\ Return("failed to remove some unsold plans")
                           /\ UNCHANGED <<worker, frame, depth, now>>
                      ELSE /\ worker' = [worker EXCEPT !.plans = WithoutPlans(@, victims)]
                           /\ pc' = "snapshot"
                           /\ frame' = [frame EXCEPT !.input.Plans = WithoutPlans(@, victims)]
                           /\ UNCHANGED <<err, depth, now>>
    /\ UNCHANGED <<epoch, yaml, kvars, cfg, market, tagger>>

\* The stale step as it would be if a dry run left the stale plans alone.
TryRemoveUnsoldPlansUnlessDryRun ==
    /\ pc = "stale"
    /\ LET victims == IF cfg.DryRun THEN {} ELSE UnsoldPlans(frame.input.Plans)
       IN  IF victims = {}
           THEN /\ pc' = "snapshot"
                /\ UNCHANGED <<worker, frame, calls, err, depth, now>>
           ELSE \E ids \in IterationOrders(victims), ok \in BOOLEAN :
                   /\ calls' = Append(calls, RemoveCall("stale", ids, ok))
                   /\ IF ~ok
                      THEN /\ Return("failed to remove some unsold plans")
                           /\ UNCHANGED <<worker, frame, depth, now>>
                      ELSE /\ depth < MaxRestarts
                           /\ worker' = [worker EXCEPT !.plans = WithoutPlans(@, victims)]
                           /\ pc' = "maintenance"
                           /\ frame' = NewFrame
                           /\ depth' = depth + 1
                           /\ \E later \in now..MaxNow : now' = later
                           /\ UNCHANGED err
    /\ UNCHANGED <<epoch, yaml, kvars, cfg, market, tagger>>

\* tryRemoveUnsoldPlans and the recursive call that follows a removal; the
\* removal takes time.
TryRemoveUnsoldPlans ==
    /\ pc = "stale"
    /\ LET victims == UnsoldPlans(frame.input.Plans)
       IN  IF victims = {}
           THEN /\ pc' = "snapshot"
                /\ UNCHANGED <<worker, frame, calls, err, depth, now>>
           ELSE \E ids \in IterationOrders(victims), ok \in BOOLEAN :
                   /\ calls' = Append(calls, RemoveCall("stale", ids, ok))
                   /\ IF ~ok
                      THEN /\ Return("failed to remove some unsold plans")
                           /\ UNCHANGED <<worker, frame, depth, now>>
                      ELSE /\ depth < MaxRestarts
                           /\ worker' = [worker EXCEPT !.plans = WithoutPlans(@, victims)]
                           /\ pc' = "maintenance"
                           /\ frame' = NewFrame
                           /\ depth' = depth + 1
                           /\ \E later \in now..MaxNow : now' = later
                           /\ UNCHANGED err
    /\ UNCHANGED <<epoch, yaml, kvars, cfg, market, tagger>>

\* VictimPlans, FreeDevices and VirtualFreeDevices.
Snapshots ==
    /\ pc = "snapshot"
    /\ \E ord1, ord2 \in IterationOrders(DOMAIN frame.input.Plans) :
          LET natural == FreeDevices(frame.input.Devices, frame.input.Plans, ord1)
              virtual == VirtualFreeDevices(frame.input.Devices, frame.input.Plans, ord2)
              victims == VictimPlans(frame.input.Plans)
          IN  IF natural.err \/ virtual.err
              THEN /\ Return("failed to virtualize resource releasing")
                   /\ frame' = [frame EXCEPT !.victimPlans = victims]
              ELSE /\ pc' = "fetch"
                   /\ frame' = [frame EXCEPT
                         !.victimPlans = victims,
                         !.naturalFreeDevices = natural.devices,
                         !.virtualFreeDevices = virtual.devices,
                         !.fetch = [pending |-> victims, waiting |-> {},
                                    locked |-> {}, seen |-> <<>>,
                                    orders |-> <<>>, err |-> ""]]
                   /\ UNCHANGED err
    /\ UNCHANGED <<epoch, yaml, kvars, cfg, now, worker, market, calls, depth, tagger>>

\* ordersForPlans, the goroutine of one victim plan: GetOrderInfo returns.
\* On an error the goroutine ends; otherwise it goes for the mutex.
FetchVictimOrder(id) ==
    /\ pc = "fetch"
    /\ id \in frame.fetch.pending \ (frame.fetch.waiting \cup frame.fetch.locked)
    /\ \E ok \in BOOLEAN :
          frame' = [frame EXCEPT !.fetch =
              [@ EXCEPT !.pending = IF ok THEN @ ELSE @ \ {id},
                        !.waiting = IF ok THEN @ \cup {id} ELSE @,
                        !.err = IF ~ok /\ @ = "" THEN "failed to get order" ELSE @]]
    /\ UNCHANGED <<epoch, yaml, kvars, pc, cfg, now, worker, market, calls, err, depth, tagger>>

\* mu.Lock as it would be if it did not wait for the holder.
FetchLockNoMutex(id) ==
    /\ pc = "fetch"
    /\ id \in frame.fetch.waiting
    /\ frame' = [frame EXCEPT !.fetch =
          [@ EXCEPT !.waiting = @ \ {id},
                    !.locked = @ \cup {id},
                    !.seen = [j \in frame.fetch.locked \cup {id} |->
                                 IF j = id THEN frame.fetch.orders
                                 ELSE frame.fetch.seen[j]]]]
    /\ UNCHANGED <<epoch, yaml, kvars, pc, cfg, now, worker, market, calls, err, depth, tagger>>

\* mu.Lock, and the read of the slice that append starts with.
FetchLock(id) ==
    /\ pc = "fetch"
    /\ id \in frame.fetch.waiting
    /\ frame.fetch.locked = {}
    /\ frame' = [frame EXCEPT !.fetch =
          [@ EXCEPT !.waiting = @ \ {id},
                    !.locked = @ \cup {id},
                    !.seen = [j \in frame.fetch.locked \cup {id} |->
                                 IF j = id THEN frame.fetch.orders
                                 ELSE frame.fetch.seen[j]]]]
    /\ UNCHANGED <<epoch, yaml, kvars, pc, cfg, now, worker, market, calls, err, depth, tagger>>

\* orders = append(orders, ...) on the slice read, then mu.Unlock; the
\* goroutine ends.
FetchAppend(id) ==
    /\ pc = "fetch"
    /\ id \in frame.fetch.locked
    /\ frame' = [frame EXCEPT !.fetch =
          [@ EXCEPT !.pending = @ \ {id},
                    !.locked = @ \ {id},
                    !.seen = [j \in frame.fetch.locked \ {id} |-> frame.fetch.seen[j]],
                    !.orders = Append(frame.fetch.seen[id],
                                      ChainOrder(frame.input.Plans[id].OrderID))]]
    /\ UNCHANGED <<epoch, yaml, kvars, pc, cfg, now, worker, market, calls, err, depth, tagger>>

\* ordersForPlans: wg.Wait; then the extended order list.
FetchWait ==
    /\ pc = "fetch"
    /\ frame.fetch.pending = {}
    /\ IF frame.fetch.err # ""
       THEN /\ Return("failed to collect orders for victim plans")
            /\ UNCHANGED frame
       ELSE /\ pc' = "optimize"
            /\ frame' = [frame EXCEPT
                  !.extOrders = frame.input.Orders \o frame.fetch.orders,
                  !.tracks = [pending |-> {"natural", "virtual"}, err |-> ""]]
            /\ UNCHANGED err
    /\ UNCHANGED <<epoch, yaml, kvars, cfg, now, worker, market, calls, depth, tagger>>

\* What optimize returns as a knapsack, with what it was computed from.
TrackResult(freeDevs, orders) ==
    LET r == optimize(frame.input.Devices, freeDevs, orders, cfg.OrderPolicy)
    IN  [nil |-> FALSE, plans |-> r.knapsack.plans, price |-> r.knapsack.price,
         free |-> r.knapsack.free, orders |-> orders, matched |-> r.matched,
         called |-> r.called, factoryOrders |-> r.factoryOrders,
         method |-> r.method]

\* One of the two goroutines of the optimization group.
Track(t) ==
    /\ pc = "optimize"
    /\ t \in frame.tracks.pending
    /\ \E ok \in BOOLEAN :
          frame' = [frame EXCEPT
              !.tracks = [pending |-> @.pending \ {t},
                          err |-> IF ~ok /\ @.err = "" THEN "failed to optimize" ELSE @.err],
              !.naturalKnapsack =
                  IF ok /\ t = "natural"
                  THEN TrackResult(frame.naturalFreeDevices, frame.input.Orders)
                  ELSE @,
              !.virtualKnapsack =
                  IF ok /\ t = "virtual"
                  THEN TrackResult(frame.virtualFreeDevices, frame.extOrders)
                  ELSE @]
    /\ UNCHANGED <<epoch, yaml, kvars, pc, cfg, now, worker, market, calls, err, depth, tagger>>

\* The wait as it would be without the dry-run check.
TracksWaitWithoutDryRun ==
    /\ pc = "optimize"
    /\ frame.tracks.pending = {}
    /\ IF frame.tracks.err # ""
       THEN Return(frame.tracks.err)
       ELSE pc' = "swing" /\ UNCHANGED err
    /\ UNCHANGED <<epoch, yaml, kvars, cfg, now, worker, market, frame, calls, depth, tagger>>

\* wg.Wait of the optimization group, then the dry-run check.
TracksWait ==
    /\ pc = "optimize"
    /\ frame.tracks.pending = {}
    /\ IF frame.tracks.err # ""
       THEN Return(frame.tracks.err)
       ELSE IF cfg.DryRun
            THEN Return("dry-run mode is active")
            ELSE pc' = "swing" /\ UNCHANGED err
    /\ UNCHANGED <<epoch, yaml, kvars, cfg, now, worker, market, frame, calls, depth, tagger>>

\* The comparison as it would be if it left out the current price.
swingTimeIgnoringCurrent(virtualPrice, inputPrice, priceThreshold) ==
    virtualPrice - priceThreshold >= 0

\* The comparison as it would be with a strict inequality.
swingTimeStrict(virtualPrice, inputPrice, priceThreshold) ==
    (virtualPrice - inputPrice) - priceThreshold > 0

\* The comparison of execute: is the gain at least the threshold.
swingTime(virtualPrice, inputPrice, priceThreshold) ==
    LET priceDiff == virtualPrice - inputPrice
    IN  (priceDiff - priceThreshold) >= 0

PlanIDs(plans) == [i \in 1..Len(plans) |-> plans[i].ID]

\* After the winners are known: no winner ends the epoch.
ToEmit(winners) ==
    IF Len(winners) = 0
    THEN Return("no plans found")
    ELSE pc' = "emit" /\ UNCHANGED err

\* A replacement classifies the plans, sends the one RemoveAskPlans and
\* makes create the winners; here as it would be if a failed removal did
\* not end the pass.
ReplaceIgnoringFailure ==
    \E ord \in IterationOrders(DOMAIN frame.input.Plans), ok \in BOOLEAN :
        LET sp == splitPlans(frame.input.Plans, ord, frame.virtualKnapsack.plans)
            victims == PlanIDs(sp.remove)
        IN  /\ calls' = Append(calls, RemoveCall("swing", victims, ok))
            /\ worker' = IF ok THEN [worker EXCEPT !.plans = WithoutPlans(@, Range(victims))]
                         ELSE worker
            /\ frame' = [frame EXCEPT !.mode = "replace", !.split = sp,
                                      !.winners = sp.create]
            /\ ToEmit(sp.create)

\* The replacement branch: splitPlans, RemoveAskPlans, winners = create.
Replace ==
    \E ord \in IterationOrders(DOMAIN frame.input.Plans), ok \in BOOLEAN :
        LET sp == splitPlans(frame.input.Plans, ord, frame.virtualKnapsack.plans)
            victims == PlanIDs(sp.remove)
        IN  /\ calls' = Append(calls, RemoveCall("swing", victims, ok))
            /\ IF ~ok
               THEN /\ Return("failed to remove plans")
                    /\ frame' = [frame EXCEPT !.mode = "replace", !.split = sp]
                    /\ UNCHANGED worker
               ELSE /\ worker' = [worker EXCEPT !.plans = WithoutPlans(@, Range(victims))]
                    /\ frame' = [frame EXCEPT !.mode = "replace", !.split = sp,
                                              !.winners = sp.create]
                    /\ ToEmit(sp.create)

\* The appending branch: winners = naturalKnapsack.Plans().
AppendNatural ==
    /\ frame' = [frame EXCEPT !.mode = "append",
                              !.winners = frame.naturalKnapsack.plans]
    /\ ToEmit(frame.naturalKnapsack.plans)
    /\ UNCHANGED <<worker, calls>>

\* The price comparison and the branch it selects.
Swing ==
    /\ pc = "swing"
    /\ IF swingTime(frame.virtualKnapsack.price, InputPrice(frame.input.Plans),
                    cfg.PriceThreshold)
       THEN Replace
       ELSE AppendNatural
    /\ UNCHANGED <<epoch, yaml, kvars, cfg, now, market, depth, tagger>>

\* Tagger.Tag
NextTag == tagger + 1

\* The worker stores a created plan under a new id.
NewPlanID(plans) == IF DOMAIN plans = {} THEN 1
                    ELSE 1 + CHOOSE m \in DOMAIN plans : \A x \in DOMAIN plans : x <= m

WithPlan(plans, plan) ==
    LET id == NewPlanID(plans)
    IN  [x \in (DOMAIN plans) \cup {id} |->
            IF x = id THEN [plan EXCEPT !.ID = id, !.CreateTime = now] ELSE plans[x]]

\* The loop as it would be if a failed CreateAskPlan ended it.
EmitStopsOnFailure ==
    /\ pc = "emit"
    /\ frame.emitted < Len(frame.winners)
    /\ LET plan == [frame.winners[frame.emitted + 1] EXCEPT
                       !.OrderID = Nil, !.Identity = cfg.Identity, !.Tag = NextTag]
       IN  \E ok \in BOOLEAN :
              /\ calls' = Append(calls, CreateCall(plan, ok))
              /\ worker' = IF ok THEN [worker EXCEPT !.plans = WithPlan(@, plan)]
                           ELSE worker
              /\ IF ~ok \/ frame.emitted + 1 = Len(frame.winners)
                 THEN Return("")
                 ELSE UNCHANGED <<pc, err>>
    /\ tagger' = NextTag
    /\ frame' = [frame EXCEPT !.emitted = @ + 1]
    /\ UNCHANGED <<epoch, yaml, kvars, cfg, now, market, depth>>

\* One round of the loop over the winners: CreateAskPlan for the next one.
Emit ==
    /\ pc = "emit"
    /\ frame.emitted < Len(frame.winners)
    /\ LET plan == [frame.winners[frame.emitted + 1] EXCEPT
                       !.OrderID = Nil, !.Identity = cfg.Identity, !.Tag = NextTag]
       IN  \E ok \in BOOLEAN :
              /\ calls' = Append(calls, CreateCall(plan, ok))
              /\ worker' = IF ok THEN [worker EXCEPT !.plans = WithPlan(@, plan)]
                           ELSE worker
    /\ tagger' = NextTag
    /\ frame' = [frame EXCEPT !.emitted = @ + 1]
    /\ IF frame.emitted + 1 = Len(frame.winners)
       THEN Return("")
       ELSE UNCHANGED <<pc, err>>
    /\ UNCHANGED <<epoch, yaml, kvars, cfg, now, market, depth>>

Next ==
    \/ Maintenance
    \/ BlacklistUpdate
    \/ GatherOrders
    \/ GatherDevices
    \/ GatherPlans
    \/ PreludeTimeout
    \/ GatherWait
    \/ TryRemoveUnsoldPlans
    \/ Snapshots
    \/ \E id \in DOMAIN PlanPool : FetchVictimOrder(id)
    \/ \E id \in DOMAIN PlanPool : FetchLock(id)
    \/ \E id \in DOMAIN PlanPool : FetchAppend(id)
    \/ FetchWait
    \/ \E t \in {"natural", "virtual"} : Track(t)
    \/ TracksWait
    \/ Swing
    \/ Emit

Spec == Init /\ [][Next]_vars


\* ------------------------------------------------------------------------
\* Epoch properties
\* ------------------------------------------------------------------------

SwingCalls == SelectSeq(calls, LAMBDA c : c.step = "swing")

EmitCalls == SelectSeq(calls, LAMBDA c : c.step = "emit")

StaleCalls == SelectSeq(calls, LAMBDA c : c.step = "stale")

\* Gain of the virtual packing over what the worker sells now.
Delta == SumPrice(frame.virtualKnapsack.plans) - InputPrice(frame.input.Plans)

C3_DryRunStops ==
    cfg.DryRun =>
        /\ SwingCalls = <<>>
        /\ EmitCalls = <<>>
        /\ pc \notin {"swing", "emit"}
        /\ (pc = "done" /\ ~frame.naturalKnapsack.nil /\ ~frame.virtualKnapsack.nil)
              => err = "dry-run mode is active"

\* A dry-run pass ended after an optimization that would have replaced.
C3_Witness ==
    /\ cfg.DryRun
    /\ pc = "done"
    /\ err = "dry-run mode is active"
    /\ Len(frame.virtualKnapsack.plans) >= 1
    /\ Delta >= cfg.PriceThreshold

\* The two knapsacks of the running pass that have been set.
Knapsacks ==
    {k \in {frame.naturalKnapsack, frame.virtualKnapsack} : ~k.nil}

\* The blacklist allows the order's author and the worker offers every flag
\* the order asks for.
Acceptable(o) ==
    /\ o.author \notin BlacklistedAuthors
    /\ o.netflags \subseteq frame.input.Devices.flags

\* Every plan of a knapsack, and every plan sent with CreateAskPlan, was
\* built from an acceptable order of the track's order list.
PlansFromAcceptableOrders ==
    /\ \A k \in Knapsacks : \A i \in 1..Len(k.plans) :
          /\ \E j \in 1..Len(k.orders) : k.orders[j].id = k.plans[i].OrderID
          /\ \A j \in 1..Len(k.orders) :
                k.orders[j].id = k.plans[i].OrderID => Acceptable(k.orders[j])
    /\ Len(EmitCalls) <= Len(frame.winners)
    /\ \A i \in 1..Len(EmitCalls) :
          /\ \E k \in Knapsacks : \E j \in 1..Len(k.plans) : k.plans[j] = frame.winners[i]
          /\ EmitCalls[i].plan.Price = frame.winners[i].Price
          /\ EmitCalls[i].plan.Resources = frame.winners[i].Resources
          /\ EmitCalls[i].plan.Duration = frame.winners[i].Duration

RECURSIVE SumResources(_, _)
SumResources(plans, ids) ==
    IF ids = {} THEN ZeroVec
    ELSE LET id == CHOOSE x \in ids : TRUE
         IN  VecAdd(plans[id].Resources.vec, SumResources(plans, ids \ {id}))

\* The pass went on after the snapshots.
PastSnapshots ==
    \/ pc \in {"fetch", "optimize", "swing", "emit"}
    \/ /\ pc = "done"
       /\ err \in {"failed to collect orders for victim plans", "failed to optimize",
                   "dry-run mode is active", "failed to remove plans",
                   "no plans found", ""}

SpotPlans == {id \in DOMAIN frame.input.Plans : frame.input.Plans[id].Duration = U64(0)}

\* C9: the victims are the plans of duration 0; the natural free capacity is
\* the worker's total minus all plans, the virtual one the total minus the
\* plans that are not victims; when the plans do not fit the total the pass
\* ends with an error, with no optimization, swing removal or CreateAskPlan.
C9_Snapshots ==
    LET plans == frame.input.Plans
        total == frame.input.Devices.vec
        sumAll == SumResources(plans, DOMAIN plans)
        sumKept == SumResources(plans, (DOMAIN plans) \ SpotPlans)
    IN  /\ PastSnapshots =>
              /\ frame.victimPlans = SpotPlans
              /\ VecFits(sumAll, total)
              /\ frame.naturalFreeDevices.vec = VecSub(total, sumAll)
              /\ frame.virtualFreeDevices.vec = VecSub(total, sumKept)
        /\ (pc = "done" /\ err = "failed to virtualize resource releasing") =>
              /\ ~VecFits(sumAll, total)
              /\ Knapsacks = {}
              /\ frame.mode = ""
              /\ SwingCalls = <<>>
              /\ EmitCalls = <<>>

\* Snapshots taken with a spot plan and a plan that is not one.
C9_Witness ==
    /\ pc = "fetch"
    /\ SpotPlans # {}
    /\ SpotPlans # DOMAIN frame.input.Plans
    /\ frame.naturalFreeDevices # frame.virtualFreeDevices

\* The plans of the input whose unsold duration has reached the threshold.
StalePlans ==
    {id \in DOMAIN frame.input.Plans :
        now - frame.input.Plans[id].CreateTime >= cfg.StaleThreshold}

\* C10: the stale step reads the plans just fetched; with no stale plan it
\* sends nothing and goes on; otherwise it sends one RemoveAskPlans with
\* exactly the stale plans (threshold included); on success the pass is
\* dropped and execute starts again at the maintenance gate with empty
\* locals; on failure execute returns an error.
C10_StaleRemoval ==
    [][pc = "stale" =>
          /\ frame.input.Plans = worker.plans
          /\ IF StalePlans = {}
             THEN calls' = calls /\ pc' = "snapshot" /\ frame' = frame
             ELSE /\ Len(calls') = Len(calls) + 1
                  /\ SubSeq(calls', 1, Len(calls)) = calls
                  /\ LET c == calls'[Len(calls')]
                     IN  /\ c.rpc = "RemoveAskPlans"
                         /\ c.step = "stale"
                         /\ Range(c.ids) = StalePlans
                         /\ Len(c.ids) = Cardinality(StalePlans)
                         /\ IF c.ok
                            THEN /\ pc' = "maintenance"
                                 /\ frame' = NewFrame
                                 /\ depth' = depth + 1
                                 /\ err' = err
                                 /\ DOMAIN worker'.plans = (DOMAIN worker.plans) \ StalePlans
                            ELSE /\ pc' = "done"
                                 /\ err' = "failed to remove some unsold plans"
                                 /\ worker' = worker]_vars

\* A second pass reached the stale step after the first one removed a plan
\* whose unsold duration was exactly the threshold, while a younger plan
\* stayed.
C10_Witness ==
    /\ depth = 1
    /\ pc = "stale"
    /\ Len(calls) = 1
    /\ calls[1].step = "stale"
    /\ calls[1].ok
    /\ calls[1].ids = <<3>>
    /\ DOMAIN worker.plans # {}


\* ------------------------------------------------------------------------
\* splitPlans specification: one call on any existing plans and candidates
\* ------------------------------------------------------------------------

\* Candidate plans given to one splitPlans call.
MaxCandidates == 3

\* Existing plans by id; plans 2 and 3 were placed for the same order.
SplitPlanPool ==
    [id \in 1..4 |->
        CASE id = 1 -> MkPlan(1, 101, 10, U64(0), Res(1, 1), "anonymous", 1, 3)
          [] id = 2 -> MkPlan(2, 102, 10, HourNanos, Res(1, 0), "anonymous", 2, 3)
          [] id = 3 -> MkPlan(3, 102, 4, U64(0), Res(0, 1), "anonymous", 3, 2)
          [] id = 4 -> MkPlan(4, 103, 6, HourNanos, Res(1, 1), "anonymous", 4, 4)]

\* Plans as Knapsack.Put builds them; two of them are for order 105.
CandidatePool ==
    { MkPlan(Nil, 101, 10, U64(0), Res(1, 1), "", 0, 0),
      MkPlan(Nil, 102, 10, HourNanos, Res(1, 0), "", 0, 0),
      MkPlan(Nil, 105, 7, U64(0), Res(1, 0), "", 0, 0),
      MkPlan(Nil, 105, 8, U64(0), Res(0, 1), "", 0, 0),
      MkPlan(Nil, 106, 9, U64(0), Res(1, 1), "", 0, 0) }

SplitInit ==
    /\ KnapsackIdle
    /\ pc = "split"
    /\ cfg = DefaultConfig
    /\ now = 0
    /\ worker = [plans |-> <<>>, devices |-> NoDevices, maintenance |-> 0]
    /\ market = <<>>
    /\ \E ids \in SUBSET (DOMAIN SplitPlanPool),
          candidates \in SeqsUpTo(CandidatePool, MaxCandidates) :
          frame = [NewFrame EXCEPT
                      !.input.Plans = [id \in ids |-> SplitPlanPool[id]],
                      !.virtualKnapsack.plans = candidates]
    /\ calls = <<>>
    /\ err = ""
    /\ depth = 0
    /\ tagger = 0
    /\ yaml = NoDocument
    /\ epoch = NewEpoch(worker.plans)

\* create, remove, ignore := m.splitPlans(input.Plans, virtualKnapsack.Plans())
SplitCall ==
    /\ pc = "split"
    /\ \E ord \in IterationOrders(DOMAIN frame.input.Plans) :
          frame' = [frame EXCEPT
              !.split = splitPlans(frame.input.Plans, ord, frame.virtualKnapsack.plans)]
    /\ pc' = "splitdone"
    /\ UNCHANGED <<epoch, yaml, kvars, cfg, now, worker, market, calls, err, depth, tagger>>

SplitNext == SplitCall

SplitSpec == SplitInit /\ [][SplitNext]_vars

\* How many of the first i plans of seq have (inS) or lack (~inS) an order
\* id of S.
CountUpTo(seq, i, S, inS) ==
    Cardinality({j \in 1..i : (seq[j].OrderID \in S) = inS})

\* C2: after splitPlans(existing, candidates) every candidate is in exactly
\* one of create and ignore, in ignore iff its order id is the order id of
\* an existing plan, and both keep the candidates' order; remove holds each
\* existing plan whose order id no candidate has, once, and nothing else;
\* no removed plan has the order id of an ignored candidate.
C2_SplitByOrderID ==
    pc = "splitdone" =>
        LET existing == frame.input.Plans
            candidates == frame.virtualKnapsack.plans
            sp == frame.split
            have == {existing[id].OrderID : id \in DOMAIN existing}
            want == {candidates[i].OrderID : i \in 1..Len(candidates)}
            gone == {id \in DOMAIN existing : existing[id].OrderID \notin want}
        IN  /\ Len(sp.create) + Len(sp.ignore) = Len(candidates)
            /\ \A i \in 1..Len(candidates) :
                  LET known == candidates[i].OrderID \in have
                      at == CountUpTo(candidates, i, have, known)
                      part == IF known THEN sp.ignore ELSE sp.create
                  IN  /\ at <= Len(part)
                      /\ part[at] = candidates[i]
            /\ Range(sp.remove) = {existing[id] : id \in gone}
            /\ Len(sp.remove) = Cardinality(gone)
            /\ \A p \in Range(sp.remove), q \in Range(sp.ignore) :
                  p.OrderID # q.OrderID

\* A call that created two plans, ignored one and removed the two existing
\* plans that share an order id.
C2_Witness ==
    /\ pc = "splitdone"
    /\ Len(frame.split.create) = 2
    /\ Len(frame.split.ignore) = 1
    /\ Len(frame.split.remove) = 2
    /\ frame.split.remove[1].OrderID = frame.split.remove[2].OrderID
    /\ DOMAIN frame.input.Plans = {1, 2, 3}


\* ------------------------------------------------------------------------
\* Order filter specification: one matchingOrders call on any order list
\* ------------------------------------------------------------------------

\* Orders given to one matchingOrders call.
MaxFilterOrders == 2

\* Orders 1 to 3 pass every filter of a SpotOnly worker with WorkerDevices;
\* order k + 3 passes the filters before the k-th one, is rejected by it,
\* and would be rejected by the next one as well.
FilterPool ==
    { MkOrder(1, "BID", U64(0), "alice", "", 7, Vec(1, 1), {}),
      MkOrder(2, "BID", U64(0), "bob", WorkerAddr, 25, Vec(2, 2), {"overlay"}),
      MkOrder(3, "BID", U64(0), "carol", MasterAddr, 30, Vec(1, 0), {"outbound"}),
      MkOrder(4, "ASK", U64(3600), "alice", "", 9, Vec(1, 1), {}),
      MkOrder(5, "BID", U64(3600), "mallory", "", 40, Vec(1, 1), {}),
      MkOrder(6, "BID", U64(0), "mallory", "", 40, Vec(1, 1), {"incoming"}),
      MkOrder(7, "BID", U64(0), "bob", "stranger", 12, Vec(1, 1), {"incoming"}),
      MkOrder(8, "BID", U64(0), "carol", "stranger", 12, Vec(3, 1), {}),
      MkOrder(9, "BID", U64(0), "alice", "", 50, Vec(1, 3), {}) }

\* cfg.OrderPolicy: PolicySpotOnly, and a value the switch has no case for.
Policies == {"SpotOnly", "Other"}

\* What is left of WorkerDevices when the manager is built.
FilterFreeDevices == {WorkerDevices, [vec |-> Vec(1, 0), flags |-> WorkerDevices.flags]}

FilterInit ==
    /\ KnapsackIdle
    /\ pc = "filter"
    /\ \E policy \in Policies : cfg = [DefaultConfig EXCEPT !.OrderPolicy = policy]
    /\ now = 0
    /\ worker = [plans |-> <<>>, devices |-> WorkerDevices, maintenance |-> 0]
    /\ market = <<>>
    /\ \E orders \in SeqsUpTo(FilterPool, MaxFilterOrders),
          free \in FilterFreeDevices :
          frame = [NewFrame EXCEPT !.input.Orders = orders,
                                   !.input.Devices = WorkerDevices,
                                   !.naturalFreeDevices = free]
    /\ calls = <<>>
    /\ err = ""
    /\ depth = 0
    /\ tagger = 0
    /\ yaml = NoDocument
    /\ epoch = NewEpoch(worker.plans)

\* matchedOrders := m.matchingOrders(deviceManager, input.Devices, orders)
FilterCall ==
    /\ pc = "filter"
    /\ LET devices == frame.input.Devices
           dm == NewDeviceManager(devices.vec, frame.naturalFreeDevices.vec,
                                  devices.flags)
           m == matchingOrders(dm, devices, frame.input.Orders, cfg.OrderPolicy)
       IN  frame' = [frame EXCEPT
               !.naturalKnapsack = [@ EXCEPT !.orders = frame.input.Orders,
                                             !.matched = m.matched,
                                             !.called = m.called]]
    /\ pc' = "filterdone"
    /\ UNCHANGED <<epoch, yaml, kvars, cfg, now, worker, market, calls, err, depth, tagger>>

FilterNext == FilterCall

FilterSpec == FilterInit /\ [][FilterNext]_vars

\* The manager the filter call was made with.
FilterManager ==
    NewDeviceManager(frame.input.Devices.vec, frame.naturalFreeDevices.vec,
                     frame.input.Devices.flags)

\* The k-th condition of the chain, for order o.
Condition(k, o) ==
    CASE k = 1 -> o.type = "BID"
      [] k = 2 -> cfg.OrderPolicy = "SpotOnly" /\ o.duration = U64(0)
      [] k = 3 -> o.author \notin BlacklistedAuthors
      [] k = 4 -> o.netflags \subseteq frame.input.Devices.flags
      [] k = 5 -> o.counterparty \in {"", WorkerAddr, MasterAddr}
      [] k = 6 -> Contains(FilterManager, o.benchmarks, o.netflags)

\* C4: after matchingOrders an order is among the matched ones iff it meets
\* the six conditions (BID; SpotOnly policy and zero duration; author not
\* blacklisted; worker flags imply its flags; counterparty unset, worker or
\* master; the manager contains it), the matched orders keep the input
\* order, and for each order the filters called were 1, 2, ... up to and
\* including the first one that rejected it, and none after that.
C4_FilterChain ==
    pc = "filterdone" =>
        LET orders == frame.input.Orders
            matched == frame.naturalKnapsack.matched
            called == frame.naturalKnapsack.called
            fits == {i \in 1..Len(orders) : \A k \in 1..6 : Condition(k, orders[i])}
        IN  /\ Len(matched) = Cardinality(fits)
            /\ \A i \in fits :
                  matched[Cardinality({j \in fits : j <= i})] = orders[i]
            /\ Len(called) = Len(orders)
            /\ \A i \in 1..Len(orders) :
                  LET n == Len(called[i])
                  IN  /\ n \in 1..6
                      /\ called[i] = [k \in 1..n |-> k]
                      /\ \A k \in 1..(n - 1) : Condition(k, orders[i])
                      /\ n < 6 => ~Condition(n, orders[i])

\* Two orders were filtered: one matched, the other was rejected by the
\* blacklist after two filters had passed it, and would have failed the
\* flags filter too.
C4_Witness ==
    /\ pc = "filterdone"
    /\ cfg.OrderPolicy = "SpotOnly"
    /\ Len(frame.input.Orders) = 2
    /\ Len(frame.naturalKnapsack.matched) = 1
    /\ \E i \in 1..2 :
          /\ frame.naturalKnapsack.called[i] = <<1, 2, 3>>
          /\ ~Condition(4, frame.input.Orders[i])


\* The stale removals the worker carried out.
RemovedCalls == SelectSeq(StaleCalls, LAMBDA c : c.ok)

\* C11 as stated: one Execute restarts the epoch at most once.
C11_AtMostOneRestart == depth <= 1

\* C11: execute calls itself once for every stale removal the worker
\* carried out and for nothing else, so a pass that again finds stale plans
\* restarts again; a failed removal ends the epoch; a pass that got past
\* the stale step holds no stale plan and never restarts.
C11_RestartPerRemoval ==
    /\ [](/\ depth = Len(RemovedCalls)
          /\ \A i \in 1..Len(StaleCalls) : ~StaleCalls[i].ok =>
                /\ i = Len(StaleCalls)
                /\ pc = "done"
                /\ err = "failed to remove some unsold plans"
          /\ pc \in {"snapshot", "fetch", "optimize", "swing", "emit"} =>
                StalePlans = {})
    /\ [][(pc \in {"snapshot", "fetch", "optimize", "swing", "emit"})
              => (depth' = depth)]_vars

\* The third pass of one Execute, after two restarts, reached optimization.
C11_Witness ==
    /\ depth = 2
    /\ pc = "optimize"
    /\ Len(RemovedCalls) = 2


\* ------------------------------------------------------------------------
\* Victim fetch specification: passes of a worker that holds spot plans
\* ------------------------------------------------------------------------

\* Spot plans by id, none of them stale; together they fill WorkerDevices.
FetchPlanPool ==
    [id \in 1..3 |->
        CASE id = 1 -> MkPlan(1, 101, 10, U64(0), Res(1, 1), "anonymous", 1, 3)
          [] id = 2 -> MkPlan(2, 103, 4, U64(0), Res(1, 0), "anonymous", 2, 3)
          [] id = 3 -> MkPlan(3, 105, 5, U64(0), Res(0, 1), "anonymous", 3, 4)]

FetchInit ==
    /\ KnapsackIdle
    /\ pc = "maintenance"
    /\ \E threshold \in {0, 5} :
          cfg = [DryRun |-> FALSE, PriceThreshold |-> threshold, StaleThreshold |-> 9,
                 OrderPolicy |-> "SpotOnly", Identity |-> "identified"]
    /\ now = 4
    /\ \E ids \in SUBSET (DOMAIN FetchPlanPool) :
          worker = [plans |-> [id \in ids |-> FetchPlanPool[id]],
                    devices |-> WorkerDevices, maintenance |-> 9]
    /\ market \in SeqsUpTo(MarketPool, 1)
    /\ frame = NewFrame
    /\ calls = <<>>
    /\ err = ""
    /\ depth = 0
    /\ tagger = 0
    /\ yaml = NoDocument
    /\ epoch = NewEpoch(worker.plans)

FetchSpec == FetchInit /\ [][Next]_vars

\* The pass has left ordersForPlans without an error.
FetchSucceeded ==
    \/ pc \in {"optimize", "swing", "emit"}
    \/ /\ pc = "done"
       /\ err \in {"failed to optimize", "dry-run mode is active",
                   "failed to remove plans", "no plans found", ""}

\* C12: once every GetOrderInfo call has succeeded, whatever the order in
\* which the goroutines ran, the fetched list holds the on-chain order of
\* each victim plan once and nothing else, the extended list is the market
\* orders followed by the fetched ones, the natural track is given the
\* market orders and the virtual track the extended list; once a call has
\* failed the pass never leaves ordersForPlans except by returning the
\* error, with no optimization, swing removal or CreateAskPlan.
C12_VictimOrders ==
    /\ FetchSucceeded =>
          /\ \E ord \in IterationOrders(frame.victimPlans) :
                frame.fetch.orders =
                    [i \in 1..Len(ord) |-> ChainOrder(frame.input.Plans[ord[i]].OrderID)]
          /\ frame.extOrders = frame.input.Orders \o frame.fetch.orders
          /\ ~frame.naturalKnapsack.nil =>
                frame.naturalKnapsack.orders = frame.input.Orders
          /\ ~frame.virtualKnapsack.nil =>
                frame.virtualKnapsack.orders = frame.extOrders
    /\ frame.fetch.err # "" =>
          /\ \/ pc = "fetch"
             \/ pc = "done" /\ err = "failed to collect orders for victim plans"
          /\ frame.naturalKnapsack.nil
          /\ frame.virtualKnapsack.nil
          /\ SwingCalls = <<>>
          /\ EmitCalls = <<>>
    /\ (pc = "done" /\ err = "failed to collect orders for victim plans") =>
          frame.fetch.err # ""

\* Three victims were fetched, the goroutine of the last plan appended
\* first, and the virtual track ran on the extended list.
C12_Witness ==
    /\ pc = "optimize"
    /\ frame.victimPlans = {1, 2, 3}
    /\ Len(frame.fetch.orders) = 3
    /\ frame.fetch.orders[1].id = 105
    /\ Len(frame.input.Orders) = 1
    /\ ~frame.virtualKnapsack.nil
    /\ Len(frame.virtualKnapsack.orders) = 4


\* The plan the emit loop submits for winner w with tag t.
Submitted(w, t) == [w EXCEPT !.OrderID = Nil, !.Identity = cfg.Identity, !.Tag = t]

\* C13: while the emit loop runs and after it, the CreateAskPlan requests
\* sent so far are one per winner handled, in the winners' order, each the
\* winner with its order id cleared, the configured identity and a tag no
\* earlier request carried; a request that failed is followed by the next
\* winner's request; when the loop is over every winner was submitted once
\* and execute returned nil.
C13_EmitEveryWinner ==
    /\ (pc = "emit" \/ (pc = "done" /\ EmitCalls # <<>>)) =>
          /\ Len(frame.winners) > 0
          /\ Len(EmitCalls) = frame.emitted
          /\ frame.emitted <= Len(frame.winners)
          /\ \A i \in 1..Len(EmitCalls) :
                /\ EmitCalls[i].plan.Tag # frame.winners[i].Tag
                /\ EmitCalls[i].plan = Submitted(frame.winners[i], EmitCalls[i].plan.Tag)
                /\ \A j \in 1..(i - 1) : EmitCalls[j].plan.Tag # EmitCalls[i].plan.Tag
          /\ pc = "done" => /\ err = ""
                            /\ frame.emitted = Len(frame.winners)
    /\ (pc = "done" /\ err = "") => EmitCalls # <<>>
    /\ pc \notin {"emit", "done"} => EmitCalls = <<>>

\* Two winners: the first CreateAskPlan failed, the second was still sent
\* and succeeded, and execute returned nil.
C13_Witness ==
    /\ pc = "done"
    /\ err = ""
    /\ Len(frame.winners) = 2
    /\ Len(EmitCalls) = 2
    /\ ~EmitCalls[1].ok
    /\ EmitCalls[2].ok


\* ------------------------------------------------------------------------
\* Method dispatch specification: one optimize call on long order lists
\* ------------------------------------------------------------------------

\* How far from 0 and from the threshold the number of matching orders goes.
MaxMargin == 3

\* Orders that do not match, put before or after the matching ones.
MaxRejected == 3

\* n orders with ids first + 1 .. first + n, all of one author.
OrdersOf(author, first, n) ==
    [i \in 1..n |-> MkOrder(first + i, "BID", U64(0), author, "", 7, Vec(1, 1), {})]

MatchingCounts ==
    (0..MaxMargin) \cup ((BatchThreshold - MaxMargin)..(BatchThreshold + MaxMargin))

\* The worker is full: an order can match, none can be put.
FactoryInit ==
    /\ KnapsackIdle
    /\ pc = "factory"
    /\ cfg = DefaultConfig
    /\ now = 0
    /\ worker = [plans |-> <<>>, devices |-> WorkerDevices, maintenance |-> 0]
    /\ market = <<>>
    /\ \E n \in MatchingCounts, r \in 0..MaxRejected, first \in BOOLEAN :
          LET good == OrdersOf("alice", 0, n)
              bad == OrdersOf("mallory", n, r)
          IN  frame = [NewFrame EXCEPT
                  !.input.Orders = IF first THEN bad \o good ELSE good \o bad,
                  !.input.Devices = WorkerDevices,
                  !.naturalFreeDevices = [vec |-> ZeroVec, flags |-> WorkerDevices.flags]]
    /\ calls = <<>>
    /\ err = ""
    /\ depth = 0
    /\ tagger = 0
    /\ yaml = NoDocument
    /\ epoch = NewEpoch(worker.plans)

\* knapsack, err := m.optimize(input.Devices, naturalFreeDevices, input.Orders)
FactoryCall ==
    /\ pc = "factory"
    /\ frame' = [frame EXCEPT !.naturalKnapsack =
                    TrackResult(frame.naturalFreeDevices, frame.input.Orders)]
    /\ pc' = "factorydone"
    /\ UNCHANGED <<epoch, yaml, kvars, cfg, now, worker, market, calls, err, depth, tagger>>

FactoryNext == FactoryCall

FactorySpec == FactoryInit /\ [][FactoryNext]_vars

\* C14: after optimize, with n the number of orders that matched: for
\* n = 0 no method was created and the knapsack is empty; for 0 < n < 128
\* the method is the BranchBoundModel; for n >= 128 it is a BatchModel of
\* GreedyLLS (exhaustion limit 128, 1e7 iterations), GeneticPacked
\* (population 256, 128 generations) and GeneticDecision (population 512,
\* 64 generations), in this order; orders that did not match do not count.
C14_MethodDispatch ==
    pc = "factorydone" =>
        LET k == frame.naturalKnapsack
            n == Cardinality({i \in 1..Len(k.orders) : k.orders[i].author = "alice"})
        IN  /\ Len(k.matched) = n
            /\ n = 0 => /\ k.method.model = ""
                        /\ k.method.methods = <<>>
                        /\ k.plans = <<>>
                        /\ k.price = 0
            /\ (n > 0 /\ n < 128) => /\ k.method.model = "BBM"
                                     /\ k.method.methods = <<>>
            /\ n >= 128 =>
                  /\ k.method.model = "Batch"
                  /\ Len(k.method.methods) = 3
                  /\ LET lls == k.method.methods[1]
                         gmp == k.method.methods[2]
                         gmd == k.method.methods[3]
                     IN  /\ lls.model = "LLS"
                         /\ lls.exhaustionLimit = 128
                         /\ lls.MaxIterations = 10000000
                         /\ gmp.model = "GMP"
                         /\ gmp.PopulationSize = 256
                         /\ gmp.MaxGenerations = 128
                         /\ gmd.model = "GMD"
                         /\ gmd.PopulationSize = 512
                         /\ gmd.MaxGenerations = 64

\* 127 of 129 orders matched and the BranchBoundModel was chosen.
C14_Witness ==
    /\ pc = "factorydone"
    /\ Len(frame.naturalKnapsack.orders) = 129
    /\ Len(frame.naturalKnapsack.matched) = 127
    /\ frame.naturalKnapsack.method.model = "BBM"


\* ------------------------------------------------------------------------
\* Configuration specification: UnmarshalYAML calls on one receiver
\* ------------------------------------------------------------------------

\* UnmarshalYAML calls made on the receiver.
MaxDecodes == 3

\* Type tags a document may carry: the four known ones, an unknown one and
\* the empty one.
Tags == {"batch", "greedy", "genetic", "branch_bound", "simplex", ""}

\* A document: its tag, whether the tag can be read (typeofInterface
\* succeeds), and whether the rest decodes into the factory's Config().
Documents == [tag : Tags, typed : BOOLEAN, decodable : BOOLEAN]

\* optimizationFactory as it would be with a default model for other tags.
optimizationFactoryWithDefault(ty) ==
    CASE ty = "batch" -> "BatchModelFactory"
      [] ty = "greedy" -> "GreedyLinearRegressionModelFactory"
      [] ty = "genetic" -> "GeneticModelFactory"
      [] ty = "branch_bound" -> "BranchBoundModelFactory"
      [] OTHER -> "BatchModelFactory"

\* optimizationFactory: the factory of a tag, "" for nil.
optimizationFactory(ty) ==
    CASE ty = "batch" -> "BatchModelFactory"
      [] ty = "greedy" -> "GreedyLinearRegressionModelFactory"
      [] ty = "genetic" -> "GeneticModelFactory"
      [] ty = "branch_bound" -> "BranchBoundModelFactory"
      [] OTHER -> ""

YamlInit ==
    /\ KnapsackIdle
    /\ pc = "idle"
    /\ cfg = DefaultConfig
    /\ now = 0
    /\ worker = [plans |-> <<>>, devices |-> NoDevices, maintenance |-> 0]
    /\ market = <<>>
    /\ frame = NewFrame
    /\ calls = <<>>
    /\ err = ""
    /\ depth = 0
    /\ tagger = 0
    /\ yaml = NoDocument
    /\ epoch = NewEpoch(worker.plans)

\* optimizationMethodFactory.UnmarshalYAML on the document doc.
UnmarshalYAML(doc) ==
    /\ yaml.calls < MaxDecodes
    /\ LET factory == optimizationFactory(doc.tag)
           e == IF ~doc.typed THEN "failed to read the type"
                ELSE IF factory = "" THEN "unknown optimization model"
                ELSE IF ~doc.decodable THEN "failed to decode the model"
                ELSE ""
       IN  yaml' = [factory |-> IF e = "" THEN factory ELSE yaml.factory,
                    before |-> yaml.factory,
                    calls |-> yaml.calls + 1,
                    err |-> e,
                    doc |-> doc]
    /\ UNCHANGED <<kvars, evars, epoch>>

YamlNext == \E doc \in Documents : UnmarshalYAML(doc)

YamlSpec == YamlInit /\ [][YamlNext]_vars

\* C15: after an UnmarshalYAML call, if the tag could be read, is one of
\* batch, greedy, genetic and branch_bound, and the rest decoded, the call
\* returned nil and the receiver holds the factory of that tag, a different
\* one for each tag; otherwise the call returned an error and the receiver
\* holds the factory it held before; for a readable tag that is none of
\* the four the error is the unknown-model error.
C15_TaggedFactory ==
    yaml.calls > 0 =>
        LET d == yaml.doc
            known == d.tag \in {"batch", "greedy", "genetic", "branch_bound"}
        IN  IF d.typed /\ known /\ d.decodable
            THEN /\ yaml.err = ""
                 /\ d.tag = "batch" => yaml.factory = "BatchModelFactory"
                 /\ d.tag = "greedy" => yaml.factory = "GreedyLinearRegressionModelFactory"
                 /\ d.tag = "genetic" => yaml.factory = "GeneticModelFactory"
                 /\ d.tag = "branch_bound" => yaml.factory = "BranchBoundModelFactory"
            ELSE /\ yaml.err # ""
                 /\ yaml.factory = yaml.before
                 /\ (d.typed /\ ~known) => yaml.err = "unknown optimization model"

\* A receiver that held the greedy factory was given a decodable document
\* with an unknown tag: the call failed and the greedy factory stayed.
C15_Witness ==
    /\ yaml.calls = 2
    /\ yaml.before = "GreedyLinearRegressionModelFactory"
    /\ yaml.doc = [tag |-> "simplex", typed |-> TRUE, decodable |-> TRUE]
    /\ yaml.err = "unknown optimization model"
    /\ yaml.factory = "GreedyLinearRegressionModelFactory"


MaintenanceErrors == {"failed to get maintenance", "worker is on the maintenance"}

\* C16: every pass starts at the maintenance gate; the step taken there
\* either ends execute with a maintenance error or goes on to the blacklist
\* update, and it ends execute whenever the maintenance time is not in the
\* future; a pass ended by the gate has gathered nothing and has sent no
\* RemoveAskPlans and no CreateAskPlan (the only requests on record are the
\* stale removals of the passes before it).
C16_MaintenanceGate ==
    /\ [](/\ (pc = "done" /\ err \in MaintenanceErrors) =>
                /\ frame = NewFrame
                /\ SwingCalls = <<>>
                /\ EmitCalls = <<>>
                /\ Len(StaleCalls) = depth
                /\ \A i \in 1..Len(StaleCalls) : StaleCalls[i].ok
          /\ pc \in {"maintenance", "blacklist"} => frame = NewFrame)
    /\ [][(pc = "maintenance") =>
             /\ calls' = calls
             /\ frame' = frame
             /\ worker' = worker
             /\ \/ pc' = "done" /\ err' \in MaintenanceErrors
                \/ pc' = "blacklist" /\ now < worker.maintenance /\ err' = err]_vars
    /\ [][(pc' = "blacklist") => (pc = "maintenance")]_vars
    /\ [][(depth' # depth) => (pc' = "maintenance")]_vars

\* The second pass of an Execute was stopped by the gate: the maintenance
\* began while the stale plans of the first pass were removed.
C16_Witness ==
    /\ depth = 1
    /\ pc = "done"
    /\ err = "worker is on the maintenance"
    /\ now = worker.maintenance
    /\ Len(StaleCalls) = 1


NotEnoughOrders == "not enough orders to perform optimization"

\* marketCache.ActiveOrders has answered in this pass, with an empty list.
EmptyReply ==
    /\ "orders" \in frame.gather.done
    /\ Len(market) = 0
    /\ frame.gather.errs["orders"] # "failed to pull market orders"

\* C17 as stated: whenever the market list came back empty the epoch ends
\* with the not-enough-orders error.
C17_AsStated ==
    (EmptyReply /\ pc = "done") => err = NotEnoughOrders

\* C17: an empty market list makes the orders fetch fail with the
\* not-enough-orders error, so the gather fails and execute returns the
\* first error of the gather group: not-enough-orders, or the error of a
\* devices or plans fetch that failed as well; nothing was removed,
\* optimized or created, whatever plans the worker holds.
C17_EmptyMarketAborts ==
    EmptyReply =>
        /\ pc \in {"gather", "done"}
        /\ frame.gather.errs["orders"] = NotEnoughOrders
        /\ frame.gather.err # ""
        /\ frame.gather.err # NotEnoughOrders =>
              \E w \in frame.gather.done \ {"orders"} :
                  frame.gather.errs[w] = frame.gather.err
        /\ pc = "done" => err = frame.gather.err
        /\ calls = <<>>
        /\ depth = 0
        /\ Knapsacks = {}
        /\ frame.mode = ""
        /\ frame.winners = <<>>

\* The market list came back empty while the worker held a stale spot plan,
\* and execute returned the not-enough-orders error.
C17_Witness ==
    /\ EmptyReply
    /\ pc = "done"
    /\ err = NotEnoughOrders
    /\ \E id \in DOMAIN worker.plans :
          /\ worker.plans[id].Duration = U64(0)
          /\ now - worker.plans[id].CreateTime >= cfg.StaleThreshold


Fetches == {"orders", "devices", "plans"}

\* The field of the input a fetch stores its reply in.
InputField(input, w) ==
    CASE w = "orders" -> input.Orders
      [] w = "devices" -> input.Devices
      [] w = "plans" -> input.Plans

\* What the fetch is answered with in this pass.
Reply(w) ==
    CASE w = "orders" -> market
      [] w = "devices" -> worker.devices
      [] w = "plans" -> worker.plans

\* The steps of execute after optimizationInput has returned an input.
AfterGather ==
    \/ pc \in {"stale", "snapshot", "fetch", "optimize", "swing", "emit"}
    \/ pc = "done" /\ frame.gather.done = Fetches /\ frame.gather.err = ""

\* C19: while the three fetches are out each one that has ended without an
\* error has stored its reply in its own field and the fields of the others
\* are untouched; the error of the first fetch that fails is kept, and from
\* then on the context the three share is done; execute goes on only when
\* all three have ended without an error, with Orders, Devices and Plans
\* being this pass's replies, and when one has failed execute returns the
\* first error and nothing but the gather has run in that pass.
C19_Gather ==
    /\ [](/\ frame.gather.done \subseteq Fetches
          /\ DOMAIN frame.gather.errs = frame.gather.done
          /\ frame.gather.ctx \in {"", "context canceled", "context deadline exceeded"}
          /\ frame.gather.err = "" <=>
                \A w \in frame.gather.done : frame.gather.errs[w] = ""
          /\ frame.gather.err # "" =>
                /\ \E w \in frame.gather.done : frame.gather.errs[w] = frame.gather.err
                /\ pc = "gather" => frame.gather.ctx # ""
          /\ (pc = "gather" \/ (pc = "done" /\ frame.gather.err # "")) =>
                \A w \in Fetches :
                    InputField(frame.input, w) =
                        IF w \in frame.gather.done /\ frame.gather.errs[w] = ""
                        THEN Reply(w)
                        ELSE InputField(NewFrame.input, w)
          /\ AfterGather =>
                /\ frame.gather.done = Fetches
                /\ frame.gather.err = ""
                /\ frame.input.Orders = market
                /\ Len(frame.input.Orders) > 0
                /\ frame.input.Devices = worker.devices
                /\ pc \in {"stale", "snapshot", "fetch", "optimize", "swing"} =>
                      frame.input.Plans = worker.plans
          /\ (pc = "done" /\ frame.gather.err # "") =>
                /\ err = frame.gather.err
                /\ [frame EXCEPT !.input = NewFrame.input,
                                 !.gather = NewFrame.gather] = NewFrame
                /\ Len(calls) = depth)
    /\ [][(pc = "gather" /\ frame.gather.err # "") =>
             (frame.gather.err = frame'.gather.err)]_vars
    /\ [][(pc = "gather" /\ pc' = "gather") =>
             /\ frame.gather.done \subseteq frame'.gather.done
             /\ Cardinality(frame'.gather.done \ frame.gather.done) <= 1
             /\ \A w \in Fetches :
                   (w \in frame.gather.done \/ w \notin frame'.gather.done) =>
                       /\ InputField(frame.input, w) = InputField(frame'.input, w)
                       /\ w \in frame.gather.done =>
                             frame.gather.errs[w] = frame'.gather.errs[w]]_vars
    /\ [][(pc = "gather" /\ pc' # "gather") =>
             /\ frame.gather.done = Fetches
             /\ frame'.input = frame.input
             /\ (pc' = "stale") <=> (frame.gather.err = "")
             /\ pc' \in {"stale", "done"}]_vars

\* The orders arrived, then the devices fetch failed and after it the plans
\* fetch: execute returned the error of the devices fetch with only Orders
\* filled in.
C19_Witness ==
    /\ pc = "done"
    /\ frame.gather.done = Fetches
    /\ frame.gather.errs["orders"] = ""
    /\ frame.gather.errs["devices"] = "failed to pull worker devices"
    /\ frame.gather.errs["plans"] = "failed to pull worker plans"
    /\ err = "failed to pull worker devices"
    /\ frame.input.Orders = market
    /\ Len(market) > 0


\* C18: the first error of an optimization track cancels the group: once
\* one track has failed the other one is cancelled and does not run to
\* completion, so it never stores a knapsack after the failure.
C18_FirstErrorCancels ==
    [][(pc = "optimize" /\ frame.tracks.err # "") =>
          /\ frame'.naturalKnapsack = frame.naturalKnapsack
          /\ frame'.virtualKnapsack = frame.virtualKnapsack]_vars


\* ------------------------------------------------------------------------
\* The append scenario: a worker of 8 cores, half of it sold for an hour
\* ------------------------------------------------------------------------

ScenarioDevices == [vec |-> Vec(8, 0), flags |-> {"overlay", "outbound"}]

\* The existing plan: not a spot one, 4 cores at 10 wei/s.
ScenarioPlan == MkPlan(1, 102, 10, HourNanos, Res(4, 0), "anonymous", 1, 4)

\* A spot plan the worker may hold besides it.
ScenarioSpotPlan == MkPlan(2, 103, 4, U64(0), Res(1, 0), "anonymous", 2, 4)

\* The market BID for 4 cores at 7 wei/s.
ScenarioBid == MkOrder(7, "BID", U64(0), "alice", "", 7, Vec(4, 0), {})

\* A smaller BID the market may list besides it.
ScenarioSmallBid == MkOrder(8, "BID", U64(0), "bob", "", 2, Vec(1, 0), {})

ScenarioInit ==
    /\ KnapsackIdle
    /\ pc = "maintenance"
    /\ \E dry \in BOOLEAN :
          cfg = [DryRun |-> dry, PriceThreshold |-> 5, StaleThreshold |-> 9,
                 OrderPolicy |-> "SpotOnly", Identity |-> "identified"]
    /\ now = 4
    /\ \E spot \in BOOLEAN :
          worker = [plans |-> [id \in (IF spot THEN {1, 2} ELSE {1}) |->
                                  IF id = 1 THEN ScenarioPlan ELSE ScenarioSpotPlan],
                    devices |-> ScenarioDevices, maintenance |-> 9]
    /\ market \in SeqsUpTo({ScenarioBid, ScenarioSmallBid}, 2)
    /\ frame = NewFrame
    /\ calls = <<>>
    /\ err = ""
    /\ depth = 0
    /\ tagger = 0
    /\ yaml = NoDocument
    /\ epoch = NewEpoch(worker.plans)

ScenarioSpec == ScenarioInit /\ [][Next]_vars

\* The pass runs on the scenario as the spec states it: the one hour plan,
\* the one BID, a price threshold of 5, and the swing rule has decided.
ScenarioDecided ==
    /\ frame.input.Plans = (1 :> ScenarioPlan)
    /\ frame.input.Orders = <<ScenarioBid>>
    /\ frame.input.Devices = ScenarioDevices
    /\ cfg.PriceThreshold = 5
    /\ frame.mode # ""

\* C20: in the append scenario the virtual price is 10 + 7, the gain over
\* the current price 10 is 7 >= 5, replacement mode is entered, the existing
\* plan is ignored, only the 7 wei plan is created, nothing is removed, and
\* exactly one CreateAskPlan, for the 7 wei plan, is sent.
C20_AppendScenario ==
    ScenarioDecided =>
        /\ frame.virtualKnapsack.price = 10 + 7
        /\ frame.virtualKnapsack.price - InputPrice(frame.input.Plans) = 7
        /\ frame.mode = "replace"
        /\ \E i \in 1..Len(frame.split.ignore) :
              frame.split.ignore[i].OrderID = ScenarioPlan.OrderID
        /\ Len(frame.split.create) = 1
        /\ frame.split.create[1].Price = 7
        /\ \A i \in 1..Len(SwingCalls) : SwingCalls[i].ids = <<>>
        /\ pc = "done" =>
              /\ Len(EmitCalls) = 1
              /\ EmitCalls[1].plan.Price = 7


\* C22: the swing rule evicts victim plans only: every plan id a
\* replacement passes to RemoveAskPlans is the id of a spot plan of the
\* input (a member of VictimPlans); a plan that is not a spot one is never
\* removed by replacement.
C22_OnlyVictimsEvicted ==
    \A i \in 1..Len(SwingCalls) :
        Range(SwingCalls[i].ids) \subseteq VictimPlans(frame.input.Plans)


\* ------------------------------------------------------------------------
\* Two epochs in a row
\* ------------------------------------------------------------------------

\* Execute is called again right after it has returned: nothing outside the
\* engine has changed, the worker holds the plans the first call left.
Execute ==
    /\ pc = "done"
    /\ epoch.n = 1
    /\ pc' = "maintenance"
    /\ frame' = NewFrame
    /\ calls' = <<>>
    /\ err' = ""
    /\ depth' = 0
    /\ epoch' = [n |-> epoch.n + 1, plans |-> worker.plans,
                 returned |-> Append(epoch.returned, err),
                 packed |-> Append(epoch.packed,
                                   [began |-> epoch.plans,
                                    input |-> frame.input,
                                    natural |-> frame.naturalKnapsack.plans,
                                    virtual |-> frame.virtualKnapsack.plans])]
    /\ UNCHANGED <<yaml, kvars, cfg, now, worker, market, tagger>>

\* Plans by id: a spot plan, a one-hour plan, a spot plan sold for nothing,
\* a spot plan that has stayed unsold for too long.
EpochsPlanPool ==
    [id \in 1..4 |->
        CASE id = 1 -> MkPlan(1, 101, 10, U64(0), Res(1, 1), "anonymous", 1, 3)
          [] id = 2 -> MkPlan(2, 102, 10, HourNanos, Res(1, 1), "anonymous", 2, 3)
          [] id = 3 -> MkPlan(3, 106, 0, U64(0), Res(1, 0), "anonymous", 3, 4)
          [] id = 4 -> MkPlan(4, 107, 3, U64(0), Res(0, 1), "anonymous", 4, 2)]

\* Orders the market may list: one that fits, one of a blacklisted author.
EpochsMarketPool ==
    { MkOrder(1, "BID", U64(0), "alice", "", 7, Vec(1, 1), {}),
      MkOrder(3, "BID", U64(0), "mallory", "", 40, Vec(1, 1), {}) }

EpochsInit ==
    /\ KnapsackIdle
    /\ pc = "maintenance"
    /\ \E dry \in BOOLEAN, threshold \in {0, 5} :
          cfg = [DryRun |-> dry, PriceThreshold |-> threshold, StaleThreshold |-> 2,
                 OrderPolicy |-> "SpotOnly", Identity |-> "identified"]
    /\ now = 4
    /\ \E ids \in SUBSET (DOMAIN EpochsPlanPool) :
          /\ Cardinality(ids) <= 2
          /\ worker = [plans |-> [id \in ids |-> EpochsPlanPool[id]],
                       devices |-> WorkerDevices, maintenance |-> 9]
    /\ market \in SeqsUpTo(EpochsMarketPool, 1)
    /\ frame = NewFrame
    /\ calls = <<>>
    /\ err = ""
    /\ depth = 0
    /\ tagger = 0
    /\ yaml = NoDocument
    /\ epoch = NewEpoch(worker.plans)

EpochsNext ==
    \/ Next
    \/ Execute

EpochsSpec == EpochsInit /\ [][EpochsNext]_vars


\* What C23 says of a pass but for its last part: at most one swing
\* RemoveAskPlans, only in replacement mode, with the plans classified as
\* remove and before any CreateAskPlan; when it fails execute returns its
\* error and no CreateAskPlan is sent.
RemoveBeforeCreate ==
    /\ Len(SwingCalls) <= 1
    /\ Len(SwingCalls) = 1 <=> frame.mode = "replace"
    /\ \A i, j \in 1..Len(calls) :
          (calls[i].step = "swing" /\ calls[j].step = "emit") => i < j
    /\ \A i \in 1..Len(SwingCalls) :
          /\ SwingCalls[i].ids = PlanIDs(frame.split.remove)
          /\ ~SwingCalls[i].ok =>
                /\ pc = "done"
                /\ err = "failed to remove plans"
                /\ EmitCalls = <<>>

\* The pass went on from a successful replacement to the CreateAskPlan
\* loop.
CreateFollows ==
    /\ frame.winners = frame.split.create
    /\ Len(frame.winners) > 0
    /\ pc \in {"emit", "done"}
    /\ pc = "done" => (err = "" /\ Len(EmitCalls) = Len(frame.winners))

FailedCallErrors ==
    {"failed to get maintenance", "failed to update blacklist",
     "failed to pull market orders", "failed to pull worker devices",
     "failed to pull worker plans", "failed to remove some unsold plans",
     "failed to collect orders for victim plans", "failed to optimize",
     "failed to remove plans"}

\* The second Execute has returned; the first one had returned nil and in
\* the second one every call succeeded.
SecondEpochDone ==
    /\ epoch.n = 2
    /\ epoch.returned = <<"">>
    /\ ~cfg.DryRun
    /\ pc = "done"
    /\ err \notin FailedCallErrors
    /\ \A i \in 1..Len(calls) : calls[i].ok

DryRunActive == "dry-run mode is active"

\* The ids of the plans the successful stale removals of this Execute call
\* have named.
RemovedAsStale ==
    UNION {Range(calls[i].ids) : i \in {j \in 1..Len(calls) : calls[j].step = "stale" /\ calls[j].ok}}

FetchStepsLeft(id) ==
    IF id \in frame.fetch.locked THEN 1
    ELSE IF id \in frame.fetch.waiting THEN 2
    ELSE 3

RECURSIVE SumFetchStepsLeft(_)
SumFetchStepsLeft(ids) ==
    IF ids = {} THEN 0
    ELSE LET id == CHOOSE x \in ids : TRUE
         IN  FetchStepsLeft(id) + SumFetchStepsLeft(ids \ {id})

\* Steps the pass execute is in still has to take before its swing step,
\* at most; held is the number of plans the worker holds.
PassStepsLeft(held) ==
    CASE pc = "maintenance" -> 16 + 3 * held
      [] pc = "blacklist" -> 15 + 3 * held
      [] pc = "gather" -> 7 + 3 * held
                            + 2 * (Cardinality(Fetches) - Cardinality(frame.gather.done))
                            + (IF frame.gather.ctx = "" THEN 1 ELSE 0)
      [] pc = "stale" -> 6 + 3 * held
      [] pc = "snapshot" -> 5 + 3 * held
      [] pc = "fetch" -> 4 + SumFetchStepsLeft(frame.fetch.pending)
      [] pc = "optimize" -> 1 + Cardinality(frame.tracks.pending)
      [] OTHER -> 0

\* A measure of what one Execute still has ahead of it: the rounds of the
\* loop over the winners, before it the steps of the pass, and before
\* those the passes that may follow it, one for every plan the worker
\* holds, since a restart follows a removal.
StepsLeft ==
    LET held == Cardinality(DOMAIN worker.plans)
    IN  CASE pc = "done" -> 0
          [] pc = "emit" -> 1 + Len(frame.winners) - frame.emitted
          [] OTHER -> 2 + Len(market) + 11 * held + PassStepsLeft(held)

\* C25: with a worker that drops the plans a successful RemoveAskPlans
\* names and gets no plan from elsewhere, every restart of execute leaves
\* the worker with fewer plans, so one Execute restarts at most as often as
\* the worker held plans when it began; every step of the epoch brings its
\* return nearer, and the epoch can always take a step until it returned.
C25_RestartTerminates ==
    /\ [](/\ depth <= Cardinality(DOMAIN epoch.plans)
          /\ pc \notin {"emit", "done"} =>
                depth + Cardinality(DOMAIN worker.plans) <= Cardinality(DOMAIN epoch.plans)
          /\ StepsLeft \in Nat
          /\ pc # "done" => ENABLED Next)
    /\ [][StepsLeft' < StepsLeft]_vars

\* An Execute that began with two plans restarted twice and returned.
C25_Witness ==
    /\ Cardinality(DOMAIN epoch.plans) = 2
    /\ depth = 2
    /\ pc = "done"
    /\ \A i \in 1..Len(calls) : calls[i].ok


\* ------------------------------------------------------------------------
\* C26: the virtual free devices are at least the natural ones
\* ------------------------------------------------------------------------

\* What C26 says of a natural and a virtual snapshot of the input.
VirtualDominates(natural, virtual, victims) ==
    /\ VecFits(natural.vec, virtual.vec)
    /\ virtual.vec = VecAdd(natural.vec, SumResources(frame.input.Plans, victims))
    /\ victims = {} => virtual = natural

\* C26: whatever the order the plans are iterated in, when FreeDevices
\* returns no error VirtualFreeDevices returns none either; the virtual free
\* devices are then at least the natural ones in every dimension, larger by
\* exactly the summed resources of the victim plans, and the same when no
\* plan is a spot plan. The snapshots a pass goes on with are such a pair.
C26_VirtualDominates ==
    LET plans == frame.input.Plans
        devices == frame.input.Devices
    IN  /\ pc = "snapshot" =>
              \A ord1, ord2 \in IterationOrders(DOMAIN plans) :
                  LET natural == FreeDevices(devices, plans, ord1)
                      virtual == VirtualFreeDevices(devices, plans, ord2)
                  IN  ~natural.err =>
                          /\ ~virtual.err
                          /\ VirtualDominates(natural.devices, virtual.devices, SpotPlans)
        /\ PastSnapshots =>
              VirtualDominates(frame.naturalFreeDevices, frame.virtualFreeDevices,
                               frame.victimPlans)

\* A pass took its snapshots of a worker with a spot plan: the virtual
\* free devices are larger than the natural ones.
C26_Witness ==
    /\ pc = "optimize"
    /\ frame.victimPlans # {}
    /\ frame.naturalFreeDevices.vec # frame.virtualFreeDevices.vec
    /\ VecFits(frame.naturalFreeDevices.vec, frame.virtualFreeDevices.vec)

=============================================================================
